---- MODULE Spec2Model ----
(***************************************************************************)
(* Track-data windowing pipeline and state store of the trace viewer UI.   *)
(*                                                                         *)
(*  - SpecQuant : ChromeSliceTrackController / AsyncSliceTrackController   *)
(*                onBoundsChange, called sequentially on one controller.   *)
(*  - SpecCtl   : overlapping onBoundsChange requests of one track and     *)
(*                the publication of their results.                        *)
(*  - Spec / SpecIds / SpecReplay : the StateActions reducers applied to   *)
(*                the store, and the UI handlers that touch store objects. *)
(***************************************************************************)
EXTENDS Integers, Sequences, FiniteSets, TLC

VARIABLES
    \* ---- onBoundsChange called sequentially (SpecQuant)
    qTable,      \* rows of the slice table that belong to the controller's track
    qTraceEnd,   \* SELECT end_ts FROM trace_bounds
    qKind,       \* which controller class: its static kind
    qMaxDurNs,   \* this.maxDurNs
    qProbes,     \* number of max-duration probe queries issued so far (capped)
    qReq,        \* arguments of the last onBoundsChange call
    qData,       \* the Data the last onBoundsChange call returned
    \* ---- overlapping onBoundsChange requests of one track (SpecCtl)
    cTable,          \* rows of the slice table that belong to the track
    cKind,           \* the controller's static kind
    cMaxDurNs,       \* this.maxDurNs of the track's controller
    cReqs,           \* the onBoundsChange calls made so far, in the order of issue
    cResolved,       \* the calls that returned, in the order of return
    cPublished,      \* the calls whose Data was published, in the order of publication
    trackDataStore,  \* globals.trackDataStore
    redraw,          \* what the raf scheduler has been asked for since the last frame
    \* ---- the state store (Spec, SpecNotes, SpecIds, SpecReplay)
    state,       \* globals.state: the committed state of the store
    draft,       \* the draft the last action handler worked on, as the handler left it
    prev,        \* the committed state before the last step
    last,        \* the last step: a dispatched action {type, args} or a UI handler
    raised,      \* whether the last action handler threw
    drops,       \* the dropTables(engineId, trackId) calls the last handler made
    steps,       \* number of steps taken
    replica,     \* the committed state of a second store that replays the same action log
    \* ---- hit-testing of a slice track (SpecHit)
    hData,       \* this.data(): the Data the track holds
    hView,       \* the visible time scale and window, and trackState.scaleFactor
    hPoint,      \* the {x, y} of the last getSliceIndex call
    hResult,     \* what the last getSliceIndex call returned
    \* ---- runControllers (SpecRun)
    rPc,         \* where the runControllers call is
    rIter,       \* its loop variable iter
    rCalls,      \* invoke() calls made by the current runControllers call
    rRunning,    \* runningControllersMap.get(globalsContext)
    rRunAgain,   \* its local runAgain
    rCallLog,    \* the last runControllers call: where it was made from and how it was received
    \* ---- the row loop's string interning (SpecIntern)
    iStrings,    \* slices.strings past the first iBase entries
    iTitles,     \* slices.titles past the first iBase rows
    iNames,      \* it.name of the rows stored by the run
    iRows,       \* rows stored by the steps of the run
    iBase,       \* rows of distinct names stored before the run
    \* ---- publishTrackData called by any publisher (SpecPublish)
    pLast,       \* the last publishTrackData call: its args and the redraw pending before it
    \* ---- the controllers of two tracks side by side (SpecTwoCtl)
    mTable,      \* the slice table rows of each track
    mMaxDurNs,   \* this.maxDurNs of each track's controller
    mReqs,       \* the onBoundsChange calls made on each controller
    \* ---- one renderCanvas pass of a slice track (SpecRender)
    dSel,        \* globals.state.currentSelection.id of a CHROME_SLICE selection
    dOps,        \* the drawing calls of the last renderCanvas pass, in order
    \* ---- the plugin manager and the kind registries (SpecPlugins)
    gContexts,   \* PluginManager.contexts: the IDs of the active plugins
    gTracks,     \* the kinds held by trackRegistry
    gControllers,\* the kinds held by trackControllerRegistry
    gCalls,      \* how many times each plugin's activate function has been called
    gLast,       \* the last call made on the plugin manager and how it ended
    \* ---- the ftrace filter under updateFtraceFilter (SpecFtrace)
    fNames,      \* state.ftraceFilter.excludedNames
    fPrev,       \* excludedNames before the last updateFtraceFilter
    fPatch,      \* the excludedNames patch of the last updateFtraceFilter
    \* ---- the metrics actions (SpecMetrics)
    kMetrics,    \* state.metrics
    kLast,       \* the last metrics action dispatched: its type and args
    kRaised,     \* whether that action threw, its draft being dropped
    \* ---- selections that scroll and their slice details (SpecScroll)
    wSelection,  \* state.currentSelection of the slice kinds, with the number of the selection
    wPending,    \* state.pendingScrollId
    wInFlight,   \* the selections whose slice details have not been published yet
    wLast        \* the last publishSliceDetails call and what it did

qvars == <<qTable, qTraceEnd, qKind, qMaxDurNs, qProbes, qReq, qData>>

cvars == <<cTable, cKind, cMaxDurNs, cReqs, cResolved, cPublished, trackDataStore, redraw>>

svars == <<state, draft, prev, last, raised, drops, steps, replica>>

hvars == <<hData, hView, hPoint, hResult>>

rvars == <<rPc, rIter, rCalls, rRunning, rRunAgain, rCallLog>>

ivars == <<iStrings, iTitles, iNames, iRows, iBase>>

pvars == <<pLast>>

xvars == <<hvars, rvars, ivars, pvars>>

mvars == <<mTable, mMaxDurNs, mReqs>>

dvars == <<dSel, dOps>>

gvars == <<gContexts, gTracks, gControllers, gCalls, gLast>>

fvars == <<fNames, fPrev, fPatch>>

kvars == <<kMetrics, kLast, kRaised>>

wvars == <<wSelection, wPending, wInFlight, wLast>>

zvars == <<fvars, kvars, wvars>>

yvars == <<mvars, dvars, gvars, zvars>>

vars == <<qvars, cvars, svars, xvars, yvars>>

Max2(a, b) == IF a >= b THEN a ELSE b
Min2(a, b) == IF a <= b THEN a ELSE b

RECURSIVE SetMax(_)
SetMax(S) == IF S = {} THEN 0
             ELSE LET x == CHOOSE y \in S : TRUE
                  IN IF S = {x} THEN x ELSE Max2(x, SetMax(S \ {x}))

(***************************************************************************)
(* Bounds of the enumerated inputs.                                        *)
(***************************************************************************)
MaxRes == 4         \* resolutions 1..MaxRes, and the scenario resolution
MaxWin == 2         \* window endpoints are multiples of WinStep up to MaxWin * WinStep
WinStep == 4
MaxTableSize == 2   \* number of slices of the enumerated slice tables
MaxProbes == 3      \* cap of the probe counter

SLICE_TRACK_KIND == "ChromeSliceTrack"
ASYNC_SLICE_TRACK_KIND == "AsyncSliceTrack"
ControllerKinds == {SLICE_TRACK_KIND, ASYNC_SLICE_TRACK_KIND}

\* A row of the slice table: dur = -1 marks an incomplete slice, dur = 0 an
\* instant.
Slice(id, ts, dur, depth, name) ==
    [id |-> id, ts |-> ts, dur |-> dur, depth |-> depth, name |-> name]

SlicePool ==
    { Slice(1, 0, 0, 0, "a"),     \* instant at the window start
      Slice(2, 3, 5, 0, "b"),
      Slice(3, 4, -1, 1, "a"),    \* incomplete
      Slice(4, 5, 2, 0, "a"),
      Slice(5, 5, 5, 0, "c"),     \* ties with slice 2 on resolution >= 4
      Slice(6, 9, 1, 1, "b"),     \* starts above the small windows
      Slice(7, 2, 0, 1, "c") }

ScenarioTable == {Slice(8, 995, 20, 0, "s")}
ScenarioReq == [start |-> 0, end |-> 1000, resolution |-> 10]

SliceTables ==
    {T \in SUBSET SlicePool : Cardinality(T) <= MaxTableSize} \cup {ScenarioTable}

Requests ==
    {[start |-> a * WinStep, end |-> b * WinStep, resolution |-> r] :
        <<a, b, r>> \in {w \in (0..MaxWin) \X (0..MaxWin) \X (1..MaxRes) : w[1] <= w[2]}}
    \cup {ScenarioReq}

\* The end of the trace is at least the end of every complete slice and the
\* start of every slice of the table.
TableEnd(T) == SetMax({s.ts + Max2(s.dur, 0) : s \in T})

NoData == [length |-> -1]
NoReq == [start |-> 0, end |-> 0, resolution |-> 0]

(***************************************************************************)
(* The queries of onBoundsChange, evaluated as the engine evaluates them.  *)
(* All dividends are non-negative, where truncating and flooring division  *)
(* agree.                                                                  *)
(***************************************************************************)

\* iif(dur = -1, (SELECT end_ts FROM trace_bounds) - ts, dur)
DurOrToEnd(s, traceEnd) == IF s.dur = -1 THEN traceEnd - s.ts ELSE s.dur

\* Mutant of MaxDurQuery: the probe finds no duration.
MaxDurQuery_Zero(T, traceEnd) == 0

\* SELECT max(iif(dur = -1, ...)) AS maxDur ... ; firstRow(...).maxDur || 0n
\* max() over no rows is NULL, and NULL || 0n is 0n.
MaxDurQuery(T, traceEnd) == SetMax({DurOrToEnd(s, traceEnd) : s \in T})

\* Mutant of Tsq: the bucket taken by rounding down.
Tsq_Floor(ts, resolution) == (ts \div resolution) * resolution

\* (ts + ${resolution / 2n}) / ${resolution} * ${resolution} as tsq
Tsq(ts, resolution) == ((ts + resolution \div 2) \div resolution) * resolution

\* WHERE ... ts >= ${start - this.maxDurNs} AND ts <= ${end}
QueryFilter(T, start, end, maxDurNs) ==
    {s \in T : s.ts >= start - maxDurNs /\ s.ts <= end}

\* GROUP BY depth, tsq
QueryGroups(F, resolution) == {<<s.depth, Tsq(s.ts, resolution)>> : s \in F}

GroupMembers(F, resolution, g) ==
    {s \in F : s.depth = g[1] /\ Tsq(s.ts, resolution) = g[2]}

\* Mutant of GroupCandidates: the bare columns come from any row of the group.
GroupCandidates_Any(F, resolution, traceEnd, g) == GroupMembers(F, resolution, g)

\* With max(...) as the only aggregate, the bare columns of a group (ts, name,
\* id, dur = 0, dur = -1) come from a row on which the maximum is attained;
\* which one, when several attain it, is the engine's choice.
GroupCandidates(F, resolution, traceEnd, g) ==
    LET M == GroupMembers(F, resolution, g)
        mx == SetMax({DurOrToEnd(s, traceEnd) : s \in M})
    IN {s \in M : DurOrToEnd(s, traceEnd) = mx}

QueryRow(s, resolution, traceEnd) ==
    [tsq |-> Tsq(s.ts, resolution),
     ts |-> s.ts,
     dur |-> DurOrToEnd(s, traceEnd),
     depth |-> s.depth,
     name |-> s.name,
     id |-> s.id,
     isInstant |-> IF s.dur = 0 THEN 1 ELSE 0,
     isIncomplete |-> IF s.dur = -1 THEN 1 ELSE 0]

\* Every result set the main query can produce.
MainQueryResults(T, start, end, resolution, maxDurNs, traceEnd) ==
    LET F == QueryFilter(T, start, end, maxDurNs)
        G == QueryGroups(F, resolution)
    IN {{QueryRow(pick[g], resolution, traceEnd) : g \in G} :
          pick \in {f \in [G -> F] :
                      \A g \in G : f[g] \in GroupCandidates(F, resolution, traceEnd, g)}}

\* ORDER BY tsq, layout_depth (async slices); the chrome slice query has no
\* ORDER BY and its rows come out in the order of the grouping, depth then tsq.
RowBefore(kind, a, b) ==
    IF kind = ASYNC_SLICE_TRACK_KIND
    THEN a.tsq < b.tsq \/ (a.tsq = b.tsq /\ a.depth < b.depth)
    ELSE a.depth < b.depth \/ (a.depth = b.depth /\ a.tsq < b.tsq)

RECURSIVE OrderRows(_, _)
OrderRows(kind, R) ==
    IF R = {} THEN <<>>
    ELSE LET first == CHOOSE a \in R : \A b \in R \ {a} : RowBefore(kind, a, b)
         IN <<first>> \o OrderRows(kind, R \ {first})

(***************************************************************************)
(* The row loop of onBoundsChange.                                         *)
(***************************************************************************)

\* BigintMath.quant(n, step): n rounded to the nearest multiple of step.
BIMathQuant(n, step) ==
    LET st == Max2(1, step) IN st * ((n + st \div 2) \div st)

\* new Uint16Array(numRows): a stored number is kept modulo 2^16.
Uint16 == 65536
ToUint16(n) == n % Uint16

IndexOf(seq, x) ==
    IF \E i \in 1..Len(seq) : seq[i] = x
    THEN (CHOOSE i \in 1..Len(seq) : seq[i] = x /\ \A j \in 1..(i - 1) : seq[j] # x) - 1
    ELSE -1

\* internString(str): the strings array after the call.
InternStrings(strings, str) ==
    IF IndexOf(strings, str) # -1 THEN strings ELSE Append(strings, str)

\* internString(str): the index returned.
InternIndex(strings, str) ==
    IF IndexOf(strings, str) # -1 THEN IndexOf(strings, str) ELSE Len(strings)

\* Mutant of RowEndQ: the minimum width dropped.
RowEndQ_NoMinEnd(row, resolution) == BIMathQuant(row.ts + row.dur, resolution)

\* const endQ = BIMath.max(BIMath.quant(end, resolution), minEnd)
RowEndQ(row, resolution) ==
    LET end == row.ts + row.dur
        minEnd == row.tsq + resolution
    IN Max2(BIMathQuant(end, resolution), minEnd)

EmptyData(start, end, resolution, numRows) ==
    [start |-> start, end |-> end, resolution |-> resolution, length |-> numRows,
     strings |-> <<>>, sliceIds |-> <<>>, starts |-> <<>>, ends |-> <<>>,
     depths |-> <<>>, titles |-> <<>>, isInstant |-> <<>>, isIncomplete |-> <<>>]

\* One iteration of  for (let row = 0; it.valid(); it.next(), row++).
\* cpuTimeRatio (a float column only the chrome slice renderer reads) is left out.
StoreRow(slices, row, resolution) ==
    [slices EXCEPT
        !.starts = Append(@, row.tsq),
        !.ends = Append(@, RowEndQ(row, resolution)),
        !.depths = Append(@, ToUint16(row.depth)),
        !.sliceIds = Append(@, row.id),
        !.titles = Append(@, ToUint16(InternIndex(slices.strings, row.name))),
        !.strings = InternStrings(@, row.name),
        !.isInstant = Append(@, row.isInstant),
        !.isIncomplete = Append(@, row.isIncomplete)]

RECURSIVE StoreRows(_, _, _)
StoreRows(slices, rows, resolution) ==
    IF rows = <<>> THEN slices
    ELSE StoreRows(StoreRow(slices, Head(rows), resolution), Tail(rows), resolution)

\* The Data onBoundsChange returns for one result set of the main query.
BuildData(kind, R, start, end, resolution) ==
    StoreRows(EmptyData(start, end, resolution, Cardinality(R)),
              OrderRows(kind, R), resolution)

(***************************************************************************)
(* SpecQuant: onBoundsChange called again and again on one controller,     *)
(* each call running to completion before the next.                        *)
(***************************************************************************)
QInit ==
    /\ qTable \in SliceTables
    /\ qTraceEnd \in {TableEnd(qTable), TableEnd(qTable) + 3}
    /\ qKind \in ControllerKinds
    /\ qMaxDurNs = 0
    /\ qProbes = 0
    /\ qReq = NoReq
    /\ qData = NoData

\* if (this.maxDurNs === 0n) { ...probe...; this.maxDurNs = ... || 0n }
MaxDurNsAfterProbe(maxDurNs, T, traceEnd) ==
    IF maxDurNs = 0 THEN MaxDurQuery(T, traceEnd) ELSE maxDurNs

QOnBoundsChange(req) ==
    LET probing == qMaxDurNs = 0
        maxDurNs == MaxDurNsAfterProbe(qMaxDurNs, qTable, qTraceEnd)
    IN /\ qMaxDurNs' = maxDurNs
       /\ qProbes' = IF probing THEN Min2(qProbes + 1, MaxProbes) ELSE qProbes
       /\ qReq' = req
       /\ \E R \in MainQueryResults(qTable, req.start, req.end, req.resolution,
                                    maxDurNs, qTraceEnd) :
            qData' = BuildData(qKind, R, req.start, req.end, req.resolution)
       /\ UNCHANGED <<qTable, qTraceEnd, qKind>>

QIdle ==
    /\ qTable = {}
    /\ qTraceEnd = 0
    /\ qKind = SLICE_TRACK_KIND
    /\ qMaxDurNs = 0
    /\ qProbes = 0
    /\ qReq = NoReq
    /\ qData = NoData

Rows(data) == 1..Len(data.starts)

\* C3: every row returned by onBoundsChange, of either controller, starts on a
\* multiple of the resolution and is at least one resolution bucket wide:
\* starts[i] % resolution = 0 and ends[i] >= starts[i] + resolution.
C3_MinWidthAndAlignment ==
    qData # NoData =>
        \A i \in Rows(qData) :
            /\ qData.starts[i] % qData.resolution = 0
            /\ qData.ends[i] >= qData.starts[i] + qData.resolution

\* A response holding an instant and an incomplete slice, one of them clamped
\* to the minimum width, from a slice that starts below the window.
C3_Witness ==
    /\ qData # NoData
    /\ \E i \in Rows(qData) : qData.isInstant[i] = 1
                              /\ qData.ends[i] = qData.starts[i] + qData.resolution
    /\ \E i \in Rows(qData) : qData.isIncomplete[i] = 1
    /\ \E s \in qTable : s.ts < qReq.start
    /\ qReq.start <= qReq.end

ScenarioAnswered == qTable = ScenarioTable /\ qReq = ScenarioReq /\ qData # NoData

\* C4 as stated: window [0, 1000], resolution 10, the single slice
\* {ts: 995, dur: 20}: one row with starts[0] = 990, ends[0] >= 1000 and
\* isIncomplete[0] = 0.
C4_Original ==
    ScenarioAnswered =>
        /\ qData.length = 1
        /\ Len(qData.starts) = 1
        /\ qData.starts[1] = 990
        /\ qData.ends[1] >= 1000
        /\ qData.isIncomplete[1] = 0

\* C4 amended: in that scenario onBoundsChange returns exactly one row, with
\* starts[0] = 1000 (995 rounded to the nearest multiple of 10),
\* ends[0] >= 1000 and isIncomplete[0] = 0.
C4_ScenarioRow ==
    ScenarioAnswered =>
        /\ qData.length = 1
        /\ Len(qData.starts) = 1
        /\ qData.starts[1] = 1000
        /\ qData.ends[1] >= 1000
        /\ qData.isIncomplete[1] = 0

C4_Witness == ScenarioAnswered /\ qData.length = 1 /\ qData.sliceIds = <<8>>

(***************************************************************************)
(* SpecCtl: one track's controller under overlapping onBoundsChange calls. *)
(* A call is at "probe" while its max-duration query is pending, at "main" *)
(* while its main query is pending, and "done" once it has returned.       *)
(***************************************************************************)
MaxReqs == 3        \* number of onBoundsChange calls of a run

CtlTrackId == "t1"
CtlTables == { {}, {Slice(1, 0, 0, 0, "a")}, {Slice(2, 3, 5, 0, "b"), Slice(3, 4, -1, 1, "a")} }
CtlRequests == { [start |-> 0, end |-> 4, resolution |-> 2],
                 [start |-> 4, end |-> 8, resolution |-> 2] }
CtlTraceEnd == 9

REDRAW_NONE == "none"
REDRAW_CONTENT == "content"
REDRAW_FULL == "full"

\* rafScheduler.scheduleRedraw(): a pending full redraw stays a full redraw.
ScheduleRedraw(r) == IF r = REDRAW_FULL THEN REDRAW_FULL ELSE REDRAW_CONTENT

\* rafScheduler.scheduleFullRedraw()
ScheduleFullRedraw(r) == REDRAW_FULL

LogExistsKey == "log-exists"
LogBoundsKey == "log-bounds"
LogEntriesKey == "log-entries"
LogKeys == {LogExistsKey, LogBoundsKey, LogEntriesKey}

\* globals.setTrackData(id, data)
SetTrackData(store, id, data) ==
    [k \in DOMAIN store \cup {id} |-> IF k = id THEN data ELSE store[k]]

\* Mutant of PublishTrackDataStore: the data is dropped.
PublishTrackDataStore_Dropped(store, id, data) == store

\* publishTrackData(args): the track data store after the call.
PublishTrackDataStore(store, id, data) == SetTrackData(store, id, data)

\* Mutant of PublishTrackDataRedraw: a content redraw whatever the key.
PublishTrackDataRedraw_AlwaysContent(store, r, id, data) == ScheduleRedraw(r)

\* publishTrackData(args): the redraw request after the call.
PublishTrackDataRedraw(store, r, id, data) ==
    LET after == PublishTrackDataStore(store, id, data)
    IN IF id \in LogKeys
       THEN IF LogExistsKey \in DOMAIN after /\ after[LogExistsKey].exists
            THEN ScheduleFullRedraw(r) ELSE r
       ELSE ScheduleRedraw(r)

CInit ==
    /\ cTable \in CtlTables
    /\ cKind \in ControllerKinds
    /\ cMaxDurNs = 0
    /\ cReqs = <<>>
    /\ cResolved = <<>>
    /\ cPublished = <<>>
    /\ trackDataStore = << >>
    /\ redraw = REDRAW_NONE

\* The identity of the most recently issued request, which is all the
\* controller keeps of its requests.
LatestRequest == Len(cReqs)

\* Whether call r is the request whose completion the controller accepts.
IsLatestRequest(r) == r = LatestRequest

\* onBoundsChange(start, end, resolution) up to its first await.
COnBoundsChange(req) ==
    /\ Len(cReqs) < MaxReqs
    /\ cReqs' = Append(cReqs,
                       IF cMaxDurNs = 0
                       THEN [req |-> req, pc |-> "probe", maxDurNs |-> 0, result |-> NoData]
                       ELSE [req |-> req, pc |-> "main", maxDurNs |-> cMaxDurNs,
                             result |-> NoData])
    /\ UNCHANGED <<cTable, cKind, cMaxDurNs, cResolved, cPublished, trackDataStore, redraw>>

\* The probe query of call r resolves: maxDurNs is stored and the main query
\* is issued.
CProbeDone(r) ==
    /\ r \in 1..Len(cReqs)
    /\ cReqs[r].pc = "probe"
    /\ LET maxDurNs == MaxDurQuery(cTable, CtlTraceEnd)
       IN /\ cMaxDurNs' = maxDurNs
          /\ cReqs' = [cReqs EXCEPT ![r].pc = "main", ![r].maxDurNs = maxDurNs]
    /\ UNCHANGED <<cTable, cKind, cResolved, cPublished, trackDataStore, redraw>>

\* The main query of call r resolves and the call returns its Data. The
\* controller publishes the Data of the most recently issued request and
\* ignores the completion of a superseded one.
CMainDone(r) ==
    /\ r \in 1..Len(cReqs)
    /\ cReqs[r].pc = "main"
    /\ LET q == cReqs[r].req
       IN \E R \in MainQueryResults(cTable, q.start, q.end, q.resolution,
                                    cReqs[r].maxDurNs, CtlTraceEnd) :
            LET data == BuildData(cKind, R, q.start, q.end, q.resolution)
            IN /\ cReqs' = [cReqs EXCEPT ![r].pc = "done", ![r].result = data]
               /\ cResolved' = Append(cResolved, r)
               /\ IF IsLatestRequest(r)
                  THEN /\ trackDataStore' = PublishTrackDataStore(trackDataStore, CtlTrackId, data)
                       /\ redraw' = PublishTrackDataRedraw(trackDataStore, redraw, CtlTrackId, data)
                       /\ cPublished' = Append(cPublished, r)
                  ELSE UNCHANGED <<trackDataStore, redraw, cPublished>>
    /\ UNCHANGED <<cTable, cKind, cMaxDurNs>>

\* The animation frame fires and the pending redraw is carried out.
CFrame ==
    /\ redraw # REDRAW_NONE
    /\ redraw' = REDRAW_NONE
    /\ UNCHANGED <<cTable, cKind, cMaxDurNs, cReqs, cResolved, cPublished, trackDataStore>>

CIdle ==
    /\ cTable = {}
    /\ cKind = SLICE_TRACK_KIND
    /\ cMaxDurNs = 0
    /\ cReqs = <<>>
    /\ cResolved = <<>>
    /\ cPublished = <<>>
    /\ trackDataStore = << >>
    /\ redraw = REDRAW_NONE

(***************************************************************************)
(* The state store.  The state is a record; an object keyed by IDs is a    *)
(* function whose domain is the set of keys present.  IDs are the decimal  *)
(* strings the code uses.  Fields no handler modelled here reads or writes *)
(* (recordConfig, status, flamegraph state, ...) are left out.             *)
(***************************************************************************)
MaxId == 3          \* no action is dispatched once nextId has reached MaxId
MaxSteps == 3       \* number of steps of a run

Undefined == "undefined"
NullSelection == [kind |-> "null"]
NoEngine == [id |-> Undefined, ready |-> FALSE, source |-> Undefined]

Digits == <<"0", "1", "2", "3", "4", "5", "6", "7", "8", "9">>

\* String(n)
RECURSIVE NumToStr(_)
NumToStr(n) ==
    IF n < 0 THEN "-" \o NumToStr(0 - n)
    ELSE IF n < 10 THEN Digits[n + 1]
    ELSE NumToStr(n \div 10) \o Digits[(n % 10) + 1]

\* Number(s), for the decimal strings a run can hold
StrToNum(str) == CHOOSE n \in (-1)..(MaxId + 2) : NumToStr(n) = str

SetKey(obj, k, v) == [x \in DOMAIN obj \cup {k} |-> IF x = k THEN v ELSE obj[x]]
DelKey(obj, k) == [x \in DOMAIN obj \ {k} |-> obj[x]]
Has(obj, k) == k \in DOMAIN obj
EmptyObj == << >>

SeqIncludes(seq, x) == \E i \in 1..Len(seq) : seq[i] = x

\* arr.filter((id) => id !== x)
RECURSIVE SeqWithout(_, _)
SeqWithout(seq, x) ==
    IF seq = <<>> THEN <<>>
    ELSE IF Head(seq) = x THEN SeqWithout(Tail(seq), x)
    ELSE <<Head(seq)>> \o SeqWithout(Tail(seq), x)

\* arr.splice(index, 1), index being 0-based; a negative index counts from
\* the end of the array.
Splice1(seq, index) ==
    LET n == Len(seq)
        at == IF index < 0 THEN Max2(n + index, 0) ELSE Min2(index, n)
    IN [i \in 1..(IF at < n THEN n - 1 ELSE n) |-> IF i <= at THEN seq[i] ELSE seq[i + 1]]

\* const index = arr.indexOf(x); if (index !== -1) arr.splice(index, 1);
RemoveFirst(seq, x) == IF IndexOf(seq, x) # -1 THEN Splice1(seq, IndexOf(seq, x)) ELSE seq

SCROLLING_TRACK_GROUP == "__scrolling__"
DEBUG_SLICE_TRACK_KIND == "DebugSliceTrack"

\* createEmptyState(), restricted to the fields modelled
EmptyState ==
    [nextId |-> "-1",
     engine |-> NoEngine,
     tracks |-> EmptyObj,
     trackGroups |-> EmptyObj,
     uiTrackIdByTraceTrackId |-> EmptyObj,
     scrollingTracks |-> <<>>,
     pinnedTracks |-> <<>>,
     filteredTracks |-> <<>>,
     areas |-> EmptyObj,
     notes |-> EmptyObj,
     currentSelection |-> NullSelection,
     permalink |-> [requestId |-> Undefined, hash |-> Undefined],
     pivotTableSelectionArea |-> [areaId |-> Undefined, tracks |-> <<>>],
     pivotTableQueryResult |-> "null"]

\* What a handler leaves behind: the draft, whether it threw, and the
\* dropTables calls it made.
Ok(st) == [st |-> st, err |-> FALSE, drops |-> {}]
Throw(st) == [st |-> st, err |-> TRUE, drops |-> {}]

\* function clearTraceState(state); the record and recording fields it
\* carries over are not modelled.
clearTraceState(s) == [EmptyState EXCEPT !.nextId = s.nextId]

\* function generateNextId(draft): the ID returned
NextIdOf(s) == NumToStr(StrToNum(s.nextId) + 1)

\* function generateNextId(draft): the draft afterwards
generateNextId(s) == [s EXCEPT !.nextId = NextIdOf(s)]

\* function removeTrack(state, trackId): the helper, not the action
removeTrackHelper(s, trackId) ==
    IF ~Has(s.tracks, trackId)
    THEN Throw(s)      \* delete of a missing key writes nothing; track.trackGroup throws
    ELSE LET track == s.tracks[trackId]
             s1 == [s EXCEPT !.tracks = DelKey(@, trackId)]
         IN IF track.trackGroup = SCROLLING_TRACK_GROUP
            THEN Ok([s1 EXCEPT !.scrollingTracks = RemoveFirst(@, trackId),
                               !.pinnedTracks = SeqWithout(@, trackId)])
            ELSE IF track.trackGroup # Undefined
            THEN IF ~Has(s1.trackGroups, track.trackGroup)
                 THEN Throw(s1)    \* state.trackGroups[...] is undefined
                 ELSE Ok([s1 EXCEPT
                            !.trackGroups[track.trackGroup].tracks = RemoveFirst(@, trackId),
                            !.pinnedTracks = SeqWithout(@, trackId)])
            ELSE Ok([s1 EXCEPT !.pinnedTracks = SeqWithout(@, trackId)])

\* function removeTrackGroup(state, groupId): the helper, called with an
\* existing group
removeTrackGroupHelper(s, groupId) ==
    LET trackGroup == s.trackGroups[groupId]
        hasParent == trackGroup.parentGroup # Undefined
                     /\ Has(s.trackGroups, trackGroup.parentGroup)
        s1 == IF hasParent
              THEN [s EXCEPT !.trackGroups[trackGroup.parentGroup].subgroups =
                                 RemoveFirst(@, groupId)]
              ELSE s
    IN [s1 EXCEPT !.trackGroups = DelKey(@, groupId),
                  !.pinnedTracks = SeqWithout(@, groupId)]

\* function isSameTrack(track, other)
isSameTrack(track, other) ==
    track.kind = other.kind /\ track.trackGroup = other.trackGroup /\ track.name = other.name

\* function isAddTrackArgs(args)
isAddTrackArgs(args) ==
    "kind" \in DOMAIN args /\ "trackSortKey" \in DOMAIN args /\ "config" \in DOMAIN args

\* function isAddTrackGroupArgs(args)
isAddTrackGroupArgs(args) ==
    "summaryTrackId" \in DOMAIN args \/ "parentGroup" \in DOMAIN args

\* function unfilterTrack(state, track): state.filteredTracks afterwards
unfilterTrack(filtered, track) ==
    LET hit(i) == isAddTrackArgs(filtered[i]) /\ isSameTrack(filtered[i], track)
    IN IF \E i \in 1..Len(filtered) : hit(i)
       THEN Splice1(filtered,
                    (CHOOSE i \in 1..Len(filtered) : hit(i) /\ \A j \in 1..(i - 1) : ~hit(j)) - 1)
       ELSE filtered

\* function unfilterTrackGroup(state, trackGroup): state.filteredTracks afterwards
unfilterTrackGroup(filtered, trackGroup) ==
    LET hit(i) == isAddTrackGroupArgs(filtered[i]) /\ filtered[i].id = trackGroup.id
    IN IF \E i \in 1..Len(filtered) : hit(i)
       THEN Splice1(filtered,
                    (CHOOSE i \in 1..Len(filtered) : hit(i) /\ \A j \in 1..(i - 1) : ~hit(j)) - 1)
       ELSE filtered

\* fillUiTrackIdByTraceTrackId: const setUiTrackId = (trackId, uiTrackId) => ...
setUiTrackId(s, trackId, uiTrackId) ==
    IF Has(s.uiTrackIdByTraceTrackId, trackId)
       /\ s.uiTrackIdByTraceTrackId[trackId] # uiTrackId
    THEN Throw(s)
    ELSE Ok([s EXCEPT !.uiTrackIdByTraceTrackId = SetKey(@, trackId, uiTrackId)])

\* cleanUiTrackIdByTraceTrackId: const cleanUiTrackId = (trackId, uiTrackId) => ...
cleanUiTrackId(s, trackId, uiTrackId) ==
    IF Has(s.uiTrackIdByTraceTrackId, trackId)
       /\ s.uiTrackIdByTraceTrackId[trackId] = uiTrackId
    THEN [s EXCEPT !.uiTrackIdByTraceTrackId = DelKey(@, trackId)]
    ELSE s

RECURSIVE setUiTrackIds(_, _, _)
setUiTrackIds(s, trackIds, uiTrackId) ==
    IF trackIds = <<>> THEN Ok(s)
    ELSE LET r == setUiTrackId(s, Head(trackIds), uiTrackId)
         IN IF r.err THEN r ELSE setUiTrackIds(r.st, Tail(trackIds), uiTrackId)

RECURSIVE cleanUiTrackIds(_, _, _)
cleanUiTrackIds(s, trackIds, uiTrackId) ==
    IF trackIds = <<>> THEN s
    ELSE cleanUiTrackIds(cleanUiTrackId(s, Head(trackIds), uiTrackId), Tail(trackIds), uiTrackId)

\* A track config: {namespace?, trackId?, trackIds?}; an absent trackIds is
\* the empty list, over which the loop runs as over an absent one.
Config(namespace, trackId, trackIds) ==
    [namespace |-> namespace, trackId |-> trackId, trackIds |-> trackIds]

\* StateActions.fillUiTrackIdByTraceTrackId, through updateUiTrackIdByTraceTrackId
fillUiTrackIdByTraceTrackId(s, trackState, uiTrackId) ==
    IF trackState.config.namespace # Undefined THEN Ok(s)
    ELSE IF trackState.config.trackId # Undefined
    THEN setUiTrackId(s, trackState.config.trackId, uiTrackId)
    ELSE setUiTrackIds(s, trackState.config.trackIds, uiTrackId)

\* StateActions.cleanUiTrackIdByTraceTrackId, through updateUiTrackIdByTraceTrackId
cleanUiTrackIdByTraceTrackId(s, trackState, uiTrackId) ==
    IF trackState.config.namespace # Undefined THEN s
    ELSE IF trackState.config.trackId # Undefined
    THEN cleanUiTrackId(s, trackState.config.trackId, uiTrackId)
    ELSE cleanUiTrackIds(s, trackState.config.trackIds, uiTrackId)

\* The tail of addTrack and of the addTracks loop body: the track joins the
\* scrolling list or its group.
JoinTrackList(s, trackGroup, id) ==
    IF trackGroup = SCROLLING_TRACK_GROUP
    THEN Ok([s EXCEPT !.scrollingTracks = Append(@, id)])
    ELSE IF trackGroup # Undefined
    THEN IF ~Has(s.trackGroups, trackGroup)
         THEN Throw(s)         \* assertExists(state.trackGroups[...])
         ELSE Ok([s EXCEPT !.trackGroups[trackGroup].tracks = Append(@, id)])
    ELSE Ok(s)

NewTrackState(id, args) ==
    [id |-> id, engineId |-> args.engineId, kind |-> args.kind, name |-> args.name,
     trackSortKey |-> args.trackSortKey, trackGroup |-> args.trackGroup,
     config |-> args.config,
     scaleFactor |-> 0]    \* not set by the handlers: 0 stands for undefined

\* StateActions.addTrack
addTrack(s, args) ==
    LET s1 == IF args.id # Undefined THEN s ELSE generateNextId(s)
        id == IF args.id # Undefined THEN args.id ELSE NextIdOf(s)
        s2 == [s1 EXCEPT !.tracks = SetKey(@, id, NewTrackState(id, args))]
        s3 == [s2 EXCEPT !.filteredTracks = unfilterTrack(@, s2.tracks[id])]
        r4 == fillUiTrackIdByTraceTrackId(s3, s3.tracks[id], id)
    IN IF r4.err THEN r4 ELSE JoinTrackList(r4.st, args.trackGroup, id)

\* StateActions.addTracks: the forEach over args.tracks
RECURSIVE addTracks(_, _)
addTracks(s, tracks) ==
    IF tracks = <<>> THEN Ok(s)
    ELSE LET track == Head(tracks)
             s1 == IF track.id # Undefined THEN s ELSE generateNextId(s)
             id == IF track.id # Undefined THEN track.id ELSE NextIdOf(s)
             s2 == [s1 EXCEPT !.tracks = SetKey(@, id, NewTrackState(id, track))]
             r3 == fillUiTrackIdByTraceTrackId(s2, s2.tracks[id], id)
             r4 == IF r3.err THEN r3 ELSE JoinTrackList(r3.st, track.trackGroup, id)
         IN IF r4.err THEN r4 ELSE addTracks(r4.st, Tail(tracks))

\* StateActions.addTrackGroup
addTrackGroup(s, args) ==
    LET group == [id |-> args.id, engineId |-> args.engineId, name |-> args.name,
                  collapsed |-> args.collapsed, tracks |-> <<args.summaryTrackId>>,
                  parentGroup |-> args.parentGroup, subgroups |-> args.subgroups]
        s1 == [s EXCEPT !.trackGroups = SetKey(@, args.id, group)]
        s2 == IF args.parentGroup # Undefined /\ Has(s1.trackGroups, args.parentGroup)
              THEN [s1 EXCEPT !.trackGroups[args.parentGroup].subgroups = Append(@, args.id)]
              ELSE s1
    IN Ok([s2 EXCEPT !.filteredTracks = unfilterTrackGroup(@, s2.trackGroups[args.id])])

\* removeTrack: whether the track is the summary track of some group
\* (Object.values(state.trackGroups).some(...)), read after the helper ran
IsSummaryTrack(s, track) ==
    /\ track.trackGroup # SCROLLING_TRACK_GROUP
    /\ \E g \in DOMAIN s.trackGroups :
          Len(s.trackGroups[g].tracks) > 0 /\ s.trackGroups[g].tracks[1] = track.id

\* removeTrack: the descriptor pushed onto state.filteredTracks
FilteredTrack(s, track) ==
    [id |-> IF IsSummaryTrack(s, track) THEN track.id ELSE Undefined,
     kind |-> track.kind, engineId |-> track.engineId, name |-> track.name,
     trackSortKey |-> track.trackSortKey, trackGroup |-> track.trackGroup,
     config |-> track.config]

\* Mutant of removeTrack: the check for a missing track is gone.
removeTrack_Unguarded(s, args) ==
    LET r1 == removeTrackHelper(s, args.trackId)
    IN IF r1.err THEN r1
       ELSE LET track == s.tracks[args.trackId]
                s2 == cleanUiTrackIdByTraceTrackId(r1.st, track, args.trackId)
                s3 == [s2 EXCEPT !.filteredTracks = Append(@, FilteredTrack(s2, track))]
            IN [st |-> s3, err |-> FALSE, drops |-> {<<track.engineId, track.id>>}]

\* StateActions.removeTrack
removeTrack(s, args) ==
    IF ~Has(s.tracks, args.trackId) THEN Ok(s)
    ELSE LET track == s.tracks[args.trackId]
             r1 == removeTrackHelper(s, args.trackId)
             s2 == cleanUiTrackIdByTraceTrackId(r1.st, track, args.trackId)
             s3 == [s2 EXCEPT !.filteredTracks = Append(@, FilteredTrack(s2, track))]
         IN IF r1.err THEN r1
            ELSE [st |-> s3, err |-> FALSE, drops |-> {<<track.engineId, track.id>>}]

\* removeTrackGroup: the descriptor pushed onto state.filteredTracks
FilteredTrackGroup(trackGroup, summaryTrackId) ==
    [id |-> trackGroup.id, engineId |-> trackGroup.engineId, name |-> trackGroup.name,
     collapsed |-> trackGroup.collapsed, summaryTrackId |-> summaryTrackId,
     parentGroup |-> trackGroup.parentGroup, subgroups |-> trackGroup.subgroups]

\* StateActions.removeTrackGroup
removeTrackGroup(s, args) ==
    IF ~Has(s.trackGroups, args.id) THEN Ok(s)
    ELSE LET trackGroup == s.trackGroups[args.id]
             r1 == removeTrack(s, [trackId |-> args.summaryTrackId])
             s2 == removeTrackGroupHelper(r1.st, args.id)
             s3 == [s2 EXCEPT !.filteredTracks =
                                Append(@, FilteredTrackGroup(trackGroup, args.summaryTrackId))]
         IN IF r1.err THEN r1
            ELSE [st |-> s3, err |-> FALSE, drops |-> r1.drops]

\* StateActions.removeDebugTrack
removeDebugTrack(s, args) ==
    IF ~Has(s.tracks, args.trackId) THEN Throw(s)      \* track.kind of undefined
    ELSE IF s.tracks[args.trackId].kind # DEBUG_SLICE_TRACK_KIND THEN Throw(s)
    ELSE removeTrackHelper(s, args.trackId)

\* StateActions.removeVisualisedArgTracks: the loop over args.trackIds
RECURSIVE removeVisualisedArgTracks(_, _)
removeVisualisedArgTracks(s, trackIds) ==
    IF trackIds = <<>> THEN Ok(s)
    ELSE LET trackId == Head(trackIds)
         IN IF ~Has(s.tracks, trackId) THEN Throw(s)   \* track.config of undefined
            ELSE IF s.tracks[trackId].config.namespace = Undefined THEN Throw(s)
            ELSE LET r == removeTrackHelper(s, trackId)
                 IN IF r.err THEN r ELSE removeVisualisedArgTracks(r.st, Tail(trackIds))

\* StateActions.updateTrackConfig
updateTrackConfig(s, args) ==
    IF ~Has(s.tracks, args.id) THEN Ok(s)
    ELSE Ok([s EXCEPT !.tracks[args.id].config = args.config])

\* StateActions.toggleTrackPinned
toggleTrackPinned(s, args) ==
    LET id == args.trackId
        isPinned == SeqIncludes(s.pinnedTracks, id)
    IN IF ~Has(s.tracks, id) THEN Throw(s)             \* assertExists(state.tracks[id])
       ELSE LET trackGroup == s.tracks[id].trackGroup
            IN IF isPinned
               THEN LET s1 == [s EXCEPT !.pinnedTracks = Splice1(@, IndexOf(@, id))]
                    IN Ok(IF trackGroup = SCROLLING_TRACK_GROUP
                          THEN [s1 EXCEPT !.scrollingTracks = <<id>> \o @]
                          ELSE s1)
               ELSE LET s1 == IF trackGroup = SCROLLING_TRACK_GROUP
                              THEN [s EXCEPT !.scrollingTracks = Splice1(@, IndexOf(@, id))]
                              ELSE s
                    IN Ok([s1 EXCEPT !.pinnedTracks = Append(@, id)])

\* Mutant of moveWithinTrackList: srcId is put before dstId whatever the op.
RECURSIVE moveWithinTrackList_AlwaysBefore(_, _)
moveWithinTrackList_AlwaysBefore(trackList, args) ==
    IF trackList = <<>> THEN <<>>
    ELSE LET curTrackId == Head(trackList)
         IN (IF curTrackId = args.dstId THEN <<args.srcId>> ELSE <<>>)
            \o (IF curTrackId # args.srcId THEN <<curTrackId>> ELSE <<>>)
            \o moveWithinTrackList_AlwaysBefore(Tail(trackList), args)

\* moveTrack: moveWithinTrackList(trackList), the list it leaves in trackList
RECURSIVE moveWithinTrackList(_, _)
moveWithinTrackList(trackList, args) ==
    IF trackList = <<>> THEN <<>>
    ELSE LET curTrackId == Head(trackList)
         IN (IF curTrackId = args.dstId /\ args.op = "before" THEN <<args.srcId>> ELSE <<>>)
            \o (IF curTrackId # args.srcId THEN <<curTrackId>> ELSE <<>>)
            \o (IF curTrackId = args.dstId /\ args.op = "after" THEN <<args.srcId>> ELSE <<>>)
            \o moveWithinTrackList(Tail(trackList), args)

\* StateActions.moveTrack
moveTrack(s, args) ==
    Ok([s EXCEPT !.pinnedTracks = moveWithinTrackList(@, args),
                 !.scrollingTracks = moveWithinTrackList(@, args)])

\* clearAllPinnedTracks: the loop from index down to 0 over the copy of
\* state.pinnedTracks (index is 0-based)
RECURSIVE UnpinFrom(_, _, _)
UnpinFrom(s, pinnedTracks, index) ==
    IF index < 0 THEN Ok(s)
    ELSE LET r == toggleTrackPinned(s, [trackId |-> pinnedTracks[index + 1]])
         IN IF r.err THEN r ELSE UnpinFrom(r.st, pinnedTracks, index - 1)

\* StateActions.clearAllPinnedTracks
clearAllPinnedTracks(s, args) == UnpinFrom(s, s.pinnedTracks, Len(s.pinnedTracks) - 1)

\* StateActions.addDebugTrack; state.debugTrackId is never assigned
addDebugTrack(s, args) ==
    LET trackId == NextIdOf(s)
        r1 == addTrack(generateNextId(s),
                       [id |-> trackId, engineId |-> args.engineId,
                        kind |-> DEBUG_SLICE_TRACK_KIND, name |-> args.name,
                        trackSortKey |-> "DEBUG_SLICE_TRACK",
                        trackGroup |-> SCROLLING_TRACK_GROUP, config |-> args.config])
    IN IF r1.err THEN r1 ELSE toggleTrackPinned(r1.st, [trackId |-> trackId])

\* StateActions.toggleTrackGroupCollapsed
toggleTrackGroupCollapsed(s, args) ==
    IF Has(s.trackGroups, args.trackGroupId)
    THEN Ok([s EXCEPT !.trackGroups[args.trackGroupId].collapsed = ~@])
    ELSE Ok(s)

\* StateActions.openTraceFromFile/Buffer/Url/Stream/HttpRpc: their common body
openTraceFrom(s, type) ==
    LET s1 == generateNextId(clearTraceState(s))
    IN Ok([s1 EXCEPT !.engine = [id |-> s1.nextId, ready |-> FALSE, source |-> type]])

openTraceFromFile(s, args) == openTraceFrom(s, "FILE")
openTraceFromBuffer(s, args) == openTraceFrom(s, "ARRAY_BUFFER")
openTraceFromUrl(s, args) == openTraceFrom(s, "URL")
openTraceFromStream(s, args) == openTraceFrom(s, "STREAM")
openTraceFromHttpRpc(s, args) == openTraceFrom(s, "HTTP_RPC")

\* StateActions.setEngineReady
setEngineReady_AnyEngine(s, args) ==
    Ok([s EXCEPT !.engine = [id |-> s.engine.id, ready |-> args.ready,
                             source |-> s.engine.source, mode |-> args.mode]])
setEngineReady(s, args) ==
    IF s.engine.id = Undefined \/ s.engine.id # args.engineId THEN Ok(s)
    ELSE Ok([s EXCEPT !.engine = [id |-> s.engine.id, ready |-> args.ready,
                                  source |-> s.engine.source, mode |-> args.mode]])

\* StateActions.createPermalink
createPermalink(s, args) ==
    Ok([generateNextId(s) EXCEPT
          !.permalink = [requestId |-> NextIdOf(s), hash |-> Undefined,
                         isRecordingConfig |-> args.isRecordingConfig]])

\* StateActions.loadPermalink
loadPermalink(s, args) ==
    Ok([generateNextId(s) EXCEPT
          !.permalink = [requestId |-> NextIdOf(s), hash |-> args.hash]])

\* StateActions.setPermalink
setPermalink_AnyRequest(s, args) == Ok([s EXCEPT !.permalink = args])
setPermalink(s, args) ==
    IF s.permalink.requestId # args.requestId THEN Ok(s)
    ELSE Ok([s EXCEPT !.permalink = args])

\* StateActions.clearPermalink
clearPermalink(s, args) ==
    Ok([s EXCEPT !.permalink = [requestId |-> Undefined, hash |-> Undefined]])

\* Mutant of setState: the counter of the previous state survives.
setState_KeepsNextId(s, args) ==
    Ok([args.newState EXCEPT !.nextId = s.nextId,
                             !.engine.ready = FALSE])

\* StateActions.setState; an undefined engine is NoEngine
setState(s, args) ==
    Ok(IF args.newState.engine # NoEngine
       THEN [args.newState EXCEPT !.engine.ready = FALSE]
       ELSE args.newState)

\* StateActions.selectNote; every ID of a run is a non-empty string
selectNote(s, args) ==
    IF args.id # "" THEN Ok([s EXCEPT !.currentSelection = [kind |-> "NOTE", id |-> args.id]])
    ELSE Ok(s)

\* StateActions.addNote
addNote(s, args) ==
    LET id == NextIdOf(s)
        note == [noteType |-> "DEFAULT", id |-> id, timestamp |-> args.timestamp,
                 color |-> args.color, text |-> ""]
    IN selectNote([generateNextId(s) EXCEPT !.notes = SetKey(@, id, note)], [id |-> id])

\* Mutant of AreaNote: the note refers to itself, not to the area.
AreaNote_SelfRef(id, areaId, color) ==
    [noteType |-> "AREA", id |-> id, areaId |-> id, color |-> color, text |-> ""]

\* The note of an area: markCurrentArea and markArea write the same shape
AreaNote(id, areaId, color) ==
    [noteType |-> "AREA", id |-> id, areaId |-> areaId, color |-> color, text |-> ""]

DefaultAreaColor == "#344596"

\* StateActions.markCurrentArea
markCurrentArea(s, args) ==
    IF s.currentSelection.kind # "AREA" THEN Ok(s)
    ELSE LET s1 == IF args.persistent THEN generateNextId(s) ELSE s
             id == IF args.persistent THEN NextIdOf(s) ELSE "0"
             color == IF args.persistent THEN args.color ELSE DefaultAreaColor
         IN Ok([s1 EXCEPT !.notes = SetKey(@, id, AreaNote(id, s.currentSelection.areaId, color)),
                          !.currentSelection.noteId = id])

\* Mutant of removeNote: an area selection is cleared with its note.
removeNote_ClearsSelection(s, args) ==
    IF ~Has(s.notes, args.id) THEN Ok(s)
    ELSE Ok([s EXCEPT !.notes = DelKey(@, args.id), !.currentSelection = NullSelection])

\* StateActions.removeNote
removeNote(s, args) ==
    IF ~Has(s.notes, args.id) THEN Ok(s)
    ELSE LET s1 == [s EXCEPT !.notes = DelKey(@, args.id)]
         IN IF s1.currentSelection.kind = "null" THEN Ok(s1)
            ELSE IF s1.currentSelection.kind = "NOTE" /\ s1.currentSelection.id = args.id
            THEN Ok([s1 EXCEPT !.currentSelection = NullSelection])
            ELSE IF s1.currentSelection.kind = "AREA" /\ s1.currentSelection.noteId = args.id
            THEN Ok([s1 EXCEPT !.currentSelection.noteId = Undefined])
            ELSE Ok(s1)

\* StateActions.toggleMarkCurrentArea; color is what randomColor() returns
toggleMarkCurrentArea(s, args, color) ==
    IF s.currentSelection.kind = "AREA" /\ s.currentSelection.noteId # Undefined
    THEN removeNote(s, [id |-> s.currentSelection.noteId])
    ELSE markCurrentArea(s, [color |-> color, persistent |-> args.persistent])

\* The area record markArea, selectArea and editArea write
AreaOf(id, area) == [id |-> id, start |-> area.start, end |-> area.end, tracks |-> area.tracks]

\* Mutant of markArea: the assertion comes after the area ID is generated.
markArea_AssertLate(s, args, color) ==
    LET s1 == generateNextId(s)
    IN IF ~(args.area.start <= args.area.end) THEN Throw(s1)
       ELSE Ok([s1 EXCEPT !.areas = SetKey(@, s1.nextId, AreaOf(s1.nextId, args.area)),
                          !.notes = SetKey(@, "0", AreaNote("0", s1.nextId, DefaultAreaColor))])

\* StateActions.markArea; color is what randomColor() returns
markArea(s, args, color) ==
    IF ~(args.area.start <= args.area.end) THEN Throw(s)      \* assertTrue(start <= end)
    ELSE LET s1 == generateNextId(s)
             areaId == s1.nextId
             s2 == [s1 EXCEPT !.areas = SetKey(@, areaId, AreaOf(areaId, args.area))]
             s3 == IF args.persistent THEN generateNextId(s2) ELSE s2
             noteId == IF args.persistent THEN s3.nextId ELSE "0"
             noteColor == IF args.persistent THEN color ELSE DefaultAreaColor
         IN Ok([s3 EXCEPT !.notes = SetKey(@, noteId, AreaNote(noteId, areaId, noteColor))])

\* StateActions.changeNoteColor
changeNoteColor(s, args) ==
    IF ~Has(s.notes, args.id) THEN Ok(s)
    ELSE Ok([s EXCEPT !.notes[args.id].color = args.newColor])

\* StateActions.changeNoteText
changeNoteText(s, args) ==
    IF ~Has(s.notes, args.id) THEN Ok(s)
    ELSE Ok([s EXCEPT !.notes[args.id].text = args.newText])

\* StateActions.deselect
deselect(s, args) == Ok([s EXCEPT !.currentSelection = NullSelection])

\* StateActions.selectArea
selectArea(s, args) ==
    IF ~(args.area.start <= args.area.end) THEN Throw(s)      \* assertTrue(start <= end)
    ELSE LET s1 == generateNextId(s)
             areaId == s1.nextId
         IN Ok([s1 EXCEPT !.areas = SetKey(@, areaId, AreaOf(areaId, args.area)),
                          !.currentSelection =
                              [kind |-> "AREA", areaId |-> areaId, noteId |-> Undefined]])

\* StateActions.editArea
editArea(s, args) ==
    IF ~(args.area.start <= args.area.end) THEN Throw(s)      \* assertTrue(start <= end)
    ELSE Ok([s EXCEPT !.areas = SetKey(@, args.areaId, AreaOf(args.areaId, args.area))])

\* StateActions.reSelectArea
reSelectArea(s, args) ==
    Ok([s EXCEPT !.currentSelection =
                    [kind |-> "AREA", areaId |-> args.areaId, noteId |-> args.noteId]])

\* toggleTrackSelection: the loop that removes the child tracks of a group
RECURSIVE RemoveChildTracks(_, _)
RemoveChildTracks(tracks, children) ==
    IF children = <<>> THEN tracks
    ELSE RemoveChildTracks(RemoveFirst(tracks, Head(children)), Tail(children))

\* toggleTrackSelection: the loop that adds the child tracks of a group
RECURSIVE AddChildTracks(_, _)
AddChildTracks(tracks, children) ==
    IF children = <<>> THEN tracks
    ELSE AddChildTracks(IF SeqIncludes(tracks, Head(children)) THEN tracks
                        ELSE Append(tracks, Head(children)),
                        Tail(children))

\* StateActions.toggleTrackSelection; the final Object.assign copies the
\* selection, which changes its identity and not its value
toggleTrackSelection(s, args) ==
    IF s.currentSelection.kind # "AREA" THEN Ok(s)
    ELSE LET areaId == s.currentSelection.areaId
         IN IF ~Has(s.areas, areaId) THEN Throw(s)     \* state.areas[areaId] is undefined
            ELSE LET index == IndexOf(s.areas[areaId].tracks, args.id)
                     s1 == IF index > -1
                           THEN [s EXCEPT !.areas[areaId].tracks = Splice1(@, index)]
                           ELSE [s EXCEPT !.areas[areaId].tracks = Append(@, args.id)]
                 IN IF ~args.isTrackGroup THEN Ok(s1)
                    ELSE IF ~Has(s1.trackGroups, args.id)
                    THEN Throw(s1)                     \* state.trackGroups[args.id] is undefined
                    ELSE LET children == s1.trackGroups[args.id].tracks
                         IN Ok([s1 EXCEPT !.areas[areaId].tracks =
                                    IF index > -1 THEN RemoveChildTracks(@, children)
                                    ELSE AddChildTracks(@, children)])

\* StateActions.togglePivotTable; globalState is globals.state, the committed
\* state of the store the handler runs for; "null" is a null areaId
togglePivotTable(s, globalState, args) ==
    IF args.areaId = "null"
    THEN Ok([s EXCEPT !.pivotTableSelectionArea = [areaId |-> Undefined, tracks |-> <<>>],
                      !.pivotTableQueryResult = "null"])
    ELSE IF ~Has(globalState.areas, args.areaId) THEN Throw(s)
    ELSE Ok([s EXCEPT !.pivotTableSelectionArea =
                         [areaId |-> args.areaId,
                          tracks |-> globalState.areas[args.areaId].tracks]])

(***************************************************************************)
(* Dispatch.  A dispatched action runs its handler on a draft of the       *)
(* committed state; the draft is committed when the handler returns and    *)
(* dropped when it throws.  The second store receives the same action.     *)
(***************************************************************************)
Commit(committed, r) == IF r.err THEN committed ELSE r.st

SInit ==
    /\ state = EmptyState
    /\ draft = EmptyState
    /\ prev = EmptyState
    /\ last = [via |-> "init", type |-> "", args |-> << >>]
    /\ raised = FALSE
    /\ drops = {}
    /\ steps = 0
    /\ replica = EmptyState

\* r is what the handler did for the store, r2 what it did for the second one
Dispatch(type, args, r, r2) ==
    /\ steps < MaxSteps
    /\ StrToNum(state.nextId) < MaxId
    /\ state' = Commit(state, r)
    /\ draft' = r.st
    /\ prev' = state
    /\ last' = [via |-> "dispatch", type |-> type, args |-> args]
    /\ raised' = r.err
    /\ drops' = r.drops
    /\ steps' = steps + 1
    /\ replica' = Commit(replica, r2)
    /\ UNCHANGED <<qvars, cvars, xvars, yvars>>

\* The arguments the actions are dispatched with
EngineId == "e"
AbsentId == "9"         \* an ID no entity of a run ever has
TrackArgs(id, trackGroup, config) ==
    [id |-> id, engineId |-> EngineId, kind |-> "K", name |-> "n",
     trackSortKey |-> "ORDINARY", trackGroup |-> trackGroup, config |-> config]
ScrollingTrack == TrackArgs(Undefined, SCROLLING_TRACK_GROUP, Config(Undefined, "7", <<>>))
GroupedTrack == TrackArgs(Undefined, "g1", Config(Undefined, Undefined, <<"7", "8">>))
ArgTrack == TrackArgs(Undefined, "g1", Config("ns", Undefined, <<>>))
SummaryTrack == TrackArgs("s1", Undefined, Config("ns", Undefined, <<>>))
AddTrackArgs == {ScrollingTrack, GroupedTrack, ArgTrack, SummaryTrack}
AddTracksArgs == {[tracks |-> <<ScrollingTrack, GroupedTrack>>], [tracks |-> <<ArgTrack>>]}
AddTrackGroupG1 ==
    [id |-> "g1", engineId |-> EngineId, name |-> "G1", collapsed |-> TRUE,
     summaryTrackId |-> "s1", parentGroup |-> Undefined, subgroups |-> <<>>]
AddTrackGroupArgs ==
    {AddTrackGroupG1,
     [id |-> "g2", engineId |-> EngineId, name |-> "G2", collapsed |-> TRUE,
      summaryTrackId |-> "s2", parentGroup |-> "g1", subgroups |-> <<>>]}
TrackIds == {"0", "s1", AbsentId}
RemoveTrackGroupArgs ==
    {[id |-> "g1", summaryTrackId |-> "s1"], [id |-> AbsentId, summaryTrackId |-> "0"]}
TrackIdLists == {<<"0">>, <<"0", AbsentId>>, <<"s1", "0">>}
GroupIds == {"g1", AbsentId}
NoteIds == {"0", AbsentId}
Colors == {"#aaa", "#bbb"}     \* what randomColor() can return
Areas == {[start |-> 0, end |-> 1, tracks |-> <<>>], [start |-> 1, end |-> 0, tracks |-> <<>>]}
ToggleTrackSelectionArgs ==
    {[id |-> "0", isTrackGroup |-> FALSE], [id |-> "g1", isTrackGroup |-> TRUE],
     [id |-> AbsentId, isTrackGroup |-> TRUE]}
SavedStates ==
    {[EmptyState EXCEPT !.nextId = "0",
                        !.engine = [id |-> "0", ready |-> TRUE, source |-> "FILE"]],
     [EmptyState EXCEPT !.nextId = "1", !.engine = NoEngine]}

\* A trace loaded into a fresh store: the group g1, two tracks of the scrolling
\* group ("0" and "1") and one track of g1 ("2"), none of them mapped to a
\* trace track.
LoadedTracks ==
    <<TrackArgs(Undefined, SCROLLING_TRACK_GROUP, Config("ns", Undefined, <<>>)),
      TrackArgs(Undefined, SCROLLING_TRACK_GROUP, Config("ns", Undefined, <<>>)),
      ArgTrack>>
LoadedState == addTracks(addTrackGroup(EmptyState, AddTrackGroupG1).st, LoadedTracks).st

LInit ==
    /\ state = LoadedState
    /\ draft = LoadedState
    /\ prev = LoadedState
    /\ last = [via |-> "init", type |-> "", args |-> << >>]
    /\ raised = FALSE
    /\ drops = {}
    /\ steps = 0
    /\ replica = LoadedState

ListTrackIds == {"0", "1", "2"}
MoveTrackArgs == [srcId : {"0", "2", AbsentId}, op : {"before", "after"}, dstId : ListTrackIds]

\* The actions on the track lists
Lists_addTrack ==
    \E args \in {ScrollingTrack, ArgTrack} :
        Dispatch("addTrack", args, addTrack(state, args), addTrack(replica, args))
Lists_removeTrack ==
    \E args \in [trackId : ListTrackIds] :
        Dispatch("removeTrack", args, removeTrack(state, args), removeTrack(replica, args))
Lists_toggleTrackPinned ==
    \E args \in [trackId : ListTrackIds] :
        Dispatch("toggleTrackPinned", args, toggleTrackPinned(state, args),
                 toggleTrackPinned(replica, args))
Dispatch_moveTrack ==
    \E args \in MoveTrackArgs :
        Dispatch("moveTrack", args, moveTrack(state, args), moveTrack(replica, args))
Dispatch_clearAllPinnedTracks ==
    Dispatch("clearAllPinnedTracks", << >>, clearAllPinnedTracks(state, << >>),
             clearAllPinnedTracks(replica, << >>))

\* One step per action of StateActions
Dispatch_addTrack ==
    \E args \in AddTrackArgs :
        Dispatch("addTrack", args, addTrack(state, args), addTrack(replica, args))
Dispatch_addTracks ==
    \E args \in AddTracksArgs :
        Dispatch("addTracks", args, addTracks(state, args.tracks),
                 addTracks(replica, args.tracks))
Dispatch_addTrackGroup ==
    \E args \in AddTrackGroupArgs :
        Dispatch("addTrackGroup", args, addTrackGroup(state, args),
                 addTrackGroup(replica, args))
Dispatch_addDebugTrack ==
    \E args \in {[engineId |-> EngineId, name |-> "d", config |-> Config("ns", Undefined, <<>>)]} :
        Dispatch("addDebugTrack", args, addDebugTrack(state, args),
                 addDebugTrack(replica, args))
Dispatch_removeDebugTrack ==
    \E args \in [trackId : TrackIds] :
        Dispatch("removeDebugTrack", args, removeDebugTrack(state, args),
                 removeDebugTrack(replica, args))
Dispatch_removeTrack ==
    \E args \in [trackId : TrackIds] :
        Dispatch("removeTrack", args, removeTrack(state, args), removeTrack(replica, args))
Dispatch_removeTrackGroup ==
    \E args \in RemoveTrackGroupArgs :
        Dispatch("removeTrackGroup", args, removeTrackGroup(state, args),
                 removeTrackGroup(replica, args))
Dispatch_removeVisualisedArgTracks ==
    \E args \in [trackIds : TrackIdLists] :
        Dispatch("removeVisualisedArgTracks", args,
                 removeVisualisedArgTracks(state, args.trackIds),
                 removeVisualisedArgTracks(replica, args.trackIds))
Dispatch_updateTrackConfig ==
    \E args \in [id : {"0", AbsentId}, config : {Config("ns", Undefined, <<>>)}] :
        Dispatch("updateTrackConfig", args, updateTrackConfig(state, args),
                 updateTrackConfig(replica, args))
Dispatch_toggleTrackPinned ==
    \E args \in [trackId : {"0", AbsentId}] :
        Dispatch("toggleTrackPinned", args, toggleTrackPinned(state, args),
                 toggleTrackPinned(replica, args))
Dispatch_toggleTrackGroupCollapsed ==
    \E args \in [trackGroupId : GroupIds] :
        Dispatch("toggleTrackGroupCollapsed", args, toggleTrackGroupCollapsed(state, args),
                 toggleTrackGroupCollapsed(replica, args))
Dispatch_toggleTrackSelection ==
    \E args \in ToggleTrackSelectionArgs :
        Dispatch("toggleTrackSelection", args, toggleTrackSelection(state, args),
                 toggleTrackSelection(replica, args))
Dispatch_openTraceFromFile ==
    \E args \in {[file |-> "f"]} :
        Dispatch("openTraceFromFile", args, openTraceFromFile(state, args),
                 openTraceFromFile(replica, args))
Dispatch_openTraceFromBuffer ==
    \E args \in {[buffer |-> "b"]} :
        Dispatch("openTraceFromBuffer", args, openTraceFromBuffer(state, args),
                 openTraceFromBuffer(replica, args))
Dispatch_openTraceFromUrl ==
    \E args \in {[url |-> "u"]} :
        Dispatch("openTraceFromUrl", args, openTraceFromUrl(state, args),
                 openTraceFromUrl(replica, args))
Dispatch_openTraceFromStream ==
    \E args \in {[stream |-> "s"]} :
        Dispatch("openTraceFromStream", args, openTraceFromStream(state, args),
                 openTraceFromStream(replica, args))
Dispatch_openTraceFromHttpRpc ==
    \E args \in {<< >>} :
        Dispatch("openTraceFromHttpRpc", args, openTraceFromHttpRpc(state, args),
                 openTraceFromHttpRpc(replica, args))
Dispatch_setEngineReady ==
    \E args \in [engineId : {"0", "1", "2"}, ready : BOOLEAN, mode : {"WASM"}] :
        Dispatch("setEngineReady", args, setEngineReady(state, args),
                 setEngineReady(replica, args))
Dispatch_createPermalink ==
    \E args \in [isRecordingConfig : {FALSE}] :
        Dispatch("createPermalink", args, createPermalink(state, args),
                 createPermalink(replica, args))
Dispatch_loadPermalink ==
    \E args \in [hash : {"h"}] :
        Dispatch("loadPermalink", args, loadPermalink(state, args),
                 loadPermalink(replica, args))
Dispatch_setPermalink ==
    \E args \in [requestId : {"0", "1", "2"}, hash : {"h1", "h2", "h3"}] :
        Dispatch("setPermalink", args, setPermalink(state, args),
                 setPermalink(replica, args))
Dispatch_clearPermalink ==
    \E args \in {<< >>} :
        Dispatch("clearPermalink", args, clearPermalink(state, args),
                 clearPermalink(replica, args))
Dispatch_setState ==
    \E args \in [newState : SavedStates] :
        Dispatch("setState", args, setState(state, args), setState(replica, args))
Dispatch_selectNote ==
    \E args \in [id : NoteIds] :
        Dispatch("selectNote", args, selectNote(state, args), selectNote(replica, args))
Dispatch_addNote ==
    \E args \in [timestamp : {5}, color : {"#aaa"}] :
        Dispatch("addNote", args, addNote(state, args), addNote(replica, args))
Dispatch_markCurrentArea ==
    \E args \in [color : {"#aaa"}, persistent : BOOLEAN] :
        Dispatch("markCurrentArea", args, markCurrentArea(state, args),
                 markCurrentArea(replica, args))
\* randomColor() is called once by each store's handler
Dispatch_toggleMarkCurrentArea ==
    \E args \in [persistent : BOOLEAN], color, color2 \in Colors :
        Dispatch("toggleMarkCurrentArea", args, toggleMarkCurrentArea(state, args, color),
                 toggleMarkCurrentArea(replica, args, color2))
Dispatch_markArea ==
    \E args \in [area : Areas, persistent : BOOLEAN], color, color2 \in Colors :
        Dispatch("markArea", args, markArea(state, args, color),
                 markArea(replica, args, color2))
Dispatch_changeNoteColor ==
    \E args \in [id : NoteIds, newColor : {"#ccc"}] :
        Dispatch("changeNoteColor", args, changeNoteColor(state, args),
                 changeNoteColor(replica, args))
Dispatch_changeNoteText ==
    \E args \in [id : NoteIds, newText : {"t"}] :
        Dispatch("changeNoteText", args, changeNoteText(state, args),
                 changeNoteText(replica, args))
Dispatch_removeNote ==
    \E args \in [id : NoteIds] :
        Dispatch("removeNote", args, removeNote(state, args), removeNote(replica, args))
Dispatch_deselect ==
    \E args \in {<< >>} :
        Dispatch("deselect", args, deselect(state, args), deselect(replica, args))
Dispatch_selectArea ==
    \E args \in [area : Areas] :
        Dispatch("selectArea", args, selectArea(state, args), selectArea(replica, args))
Dispatch_editArea ==
    \E args \in [area : Areas, areaId : {"0"}] :
        Dispatch("editArea", args, editArea(state, args), editArea(replica, args))
Dispatch_reSelectArea ==
    \E args \in [areaId : {"0"}, noteId : {"0"}] :
        Dispatch("reSelectArea", args, reSelectArea(state, args), reSelectArea(replica, args))
\* reSelectArea dispatched with IDs that may name nothing
Areas_reSelectArea ==
    \E args \in [areaId : {"0", AbsentId}, noteId : {"0", Undefined}] :
        Dispatch("reSelectArea", args, reSelectArea(state, args),
                 reSelectArea(replica, args))
Dispatch_togglePivotTable ==
    \E args \in [areaId : {"null", "0", AbsentId}] :
        Dispatch("togglePivotTable", args, togglePivotTable(state, state, args),
                 togglePivotTable(replica, replica, args))

\* resizeTrack's mouseMoveEvent: the handler assigns to the TrackState object
\* it was given, which is globals.state.tracks[trackId]; no action is
\* dispatched, so the second store, which sees only the action log, is not
\* touched.  newMultiplier is trackHeight / defaultHeight.
Multipliers == {0, 2}
ResizeTrackMouseMove ==
    \E trackId \in DOMAIN state.tracks, newMultiplier \in Multipliers :
        /\ steps < MaxSteps
        /\ state' = [state EXCEPT !.tracks[trackId].scaleFactor = Max2(1, newMultiplier)]
        /\ prev' = state
        /\ last' = [via |-> "ui", type |-> "resizeTrack.mouseMoveEvent",
                    args |-> [trackId |-> trackId]]
        /\ raised' = FALSE
        /\ drops' = {}
        /\ steps' = steps + 1
        /\ UNCHANGED <<draft, replica, qvars, cvars, xvars, yvars>>

(***************************************************************************)
(* Hit-testing of a slice track: ChromeSliceTrack.getSliceIndex.  The time *)
(* scale maps pixel x to time x * nsPerPx, the visible window starting at  *)
(* time 0.                                                                 *)
(***************************************************************************)
DEFAULT_SLICE_HEIGHT == 18
TRACK_PADDING == 2
HALF_CHEVRON_WIDTH_PX == 5
NoHit == -1          \* getSliceIndex returns nothing
HALF_DIAMOND_WIDTH_PX == 8

CHEVRON == "chevron"
DIAMOND == "diamond"

\* Half the width of the glyph drawChevron draws for an instant: the diamond of
\* AsyncSliceTrack on a GPU buffer track whose instant has a title, the
\* chevron of ChromeSliceTrack otherwise.
GlyphHalfWidthPx(view) ==
    IF view.glyph = DIAMOND THEN HALF_DIAMOND_WIDTH_PX ELSE HALF_CHEVRON_WIDTH_PX

\* timeScale.pxToHpTime(x)
PxToHpTime(view, x) == x * view.nsPerPx

\* timeScale.pxDeltaToDuration(px)
PxDeltaToDuration(view, px) == px * view.nsPerPx

Abs(n) == IF n < 0 THEN 0 - n ELSE n

\* Mutant of HitDepth: the padding is not subtracted.
HitDepth_NoPadding(view, y) == y \div (DEFAULT_SLICE_HEIGHT * view.scaleFactor)

\* const depth = Math.floor((y - TRACK_PADDING) / sliceHeight), for y >= TRACK_PADDING
HitDepth(view, y) == (y - TRACK_PADDING) \div (DEFAULT_SLICE_HEIGHT * view.scaleFactor)

\* getSliceIndex: whether the loop returns at row i (1-based here)
RowHit(data, view, i, t, depth) ==
    /\ depth = data.depths[i]
    /\ IF data.isInstant[i] = 1
       THEN Abs(data.starts[i] - t) < PxDeltaToDuration(view, HALF_CHEVRON_WIDTH_PX)
       ELSE LET tEnd == IF data.isIncomplete[i] = 1 THEN view.windowEnd ELSE data.ends[i]
            IN data.starts[i] <= t /\ t <= tEnd

\* getSliceIndex: the for loop from row i on
RECURSIVE ScanRows(_, _, _, _, _)
ScanRows(data, view, i, t, depth) ==
    IF i > Len(data.starts) THEN NoHit
    ELSE IF RowHit(data, view, i, t, depth) THEN i - 1
    ELSE ScanRows(data, view, i + 1, t, depth)

\* ChromeSliceTrack.getSliceIndex({x, y})
getSliceIndex(data, view, x, y) ==
    IF data = NoData THEN NoHit
    ELSE IF y < TRACK_PADDING THEN NoHit
    ELSE ScanRows(data, view, 1, PxToHpTime(view, x), HitDepth(view, y))

\* ChromeSliceTrack.getSliceRect(tStart, tEnd, depth). The visible window
\* starts at time 0 and pixel 0, so tpTimeToPx(t) = t / nsPerPx and
\* windowSpan.end = windowEnd / nsPerPx; left and width are kept multiplied by
\* nsPerPx, which keeps the sub-pixel positions in the integers.
getSliceRect(view, tStart, tEnd, depth) ==
    LET left == Max2(tStart, 0)
        right == Min2(tEnd, view.windowEnd)
    IN [left |-> left,
        width |-> Max2(right - left, view.nsPerPx),
        top |-> TRACK_PADDING + depth * (DEFAULT_SLICE_HEIGHT * view.scaleFactor),
        height |-> DEFAULT_SLICE_HEIGHT * view.scaleFactor,
        visible |-> ~(0 > tEnd \/ view.windowEnd < tStart)]

\* renderCanvas: the rectangle of row i; an incomplete row is drawn to the end
\* of the visible window.
RenderRect(data, view, i) ==
    getSliceRect(view, data.starts[i],
                 IF data.isIncomplete[i] = 1 THEN view.windowEnd ELSE data.ends[i],
                 data.depths[i])

\* The rows of the Data a track can hold, as onBoundsChange stores them
HitRow(start, end, depth, isInstant, isIncomplete) ==
    [start |-> start, end |-> end, depth |-> depth,
     isInstant |-> isInstant, isIncomplete |-> isIncomplete]
ScenarioRow == HitRow(50, 70, 0, 0, 0)
HitRowPool ==
    { ScenarioRow,
      HitRow(52, 60, 0, 0, 0),      \* overlaps the scenario row
      HitRow(50, 70, 1, 0, 0),
      HitRow(100, 102, 0, 1, 0),    \* instant
      HitRow(60, 80, 0, 0, 1),      \* incomplete, its end below the window's
      HitRow(49, 50, 0, 0, 0) }     \* narrower than a pixel when nsPerPx = 4
MaxHitRows == 2      \* rows of the Data a track holds
RECURSIVE HitRowLists(_)
HitRowLists(n) ==
    IF n = 0 THEN {<<>>}
    ELSE LET shorter == HitRowLists(n - 1)
         IN shorter \cup
            {Append(l, a) : <<l, a>> \in
                {p \in shorter \X HitRowPool :
                    Len(p[1]) = n - 1 /\ \A i \in 1..Len(p[1]) : p[1][i] # p[2]}}
HitData(rows) ==
    [length |-> Len(rows),
     starts |-> [i \in 1..Len(rows) |-> rows[i].start],
     ends |-> [i \in 1..Len(rows) |-> rows[i].end],
     depths |-> [i \in 1..Len(rows) |-> rows[i].depth],
     sliceIds |-> [i \in 1..Len(rows) |-> 10 + i],
     isInstant |-> [i \in 1..Len(rows) |-> rows[i].isInstant],
     isIncomplete |-> [i \in 1..Len(rows) |-> rows[i].isIncomplete]]
HitViews ==
    [nsPerPx : {1, 2, 4}, windowEnd : {240}, scaleFactor : {1, 2}, glyph : {CHEVRON, DIAMOND}]
HitXs == {13, 45, 50, 55, 70, 71, 100}
HitYs == {1, 2, 5, 19, 20, 38}
NoPoint == [x |-> -1, y |-> -1]

HInit ==
    /\ hData \in {NoData} \cup {HitData(rows) : rows \in HitRowLists(MaxHitRows)}
    /\ hView \in HitViews
    /\ hPoint = NoPoint
    /\ hResult = NoHit

HGetSliceIndex(x, y) ==
    /\ hPoint' = [x |-> x, y |-> y]
    /\ hResult' = getSliceIndex(hData, hView, x, y)
    /\ UNCHANGED <<hData, hView>>

HIdle ==
    /\ hData = NoData
    /\ hView = [nsPerPx |-> 1, windowEnd |-> 0, scaleFactor |-> 1, glyph |-> CHEVRON]
    /\ hPoint = NoPoint
    /\ hResult = NoHit

(***************************************************************************)
(* runControllers, for one globalsContext with a registered root           *)
(* controller.  A call is at "loop" at the head of its for loop and at     *)
(* "invoking" while the root controller's invoke() runs.                   *)
(***************************************************************************)
LivelockCap == 100

\* Mutant of LivelockExceeded: the cap is tested one iteration late.
LivelockExceeded_Late(iter) == iter > LivelockCap + 1

\* if (iter > 100) throw new Error('Controllers are stuck in a livelock')
LivelockExceeded(iter) == iter > LivelockCap

RunEnded == rPc \in {"returned", "livelock", "threw"}

CallLog(at, rejected, iter, calls) ==
    [at |-> at, rejected |-> rejected, iter |-> iter, calls |-> calls]

\* try { ... invoke() } finally { runningControllersMap.set(globalsContext, false) }
RunningAfterInvoke_NoFinally(threw) == threw
RunningAfterInvoke(threw) == FALSE

RInit ==
    /\ rPc = "idle"
    /\ rIter = 0
    /\ rCalls = 0
    /\ rRunning = FALSE
    /\ rRunAgain = FALSE
    /\ rCallLog = CallLog("none", FALSE, 0, 0)

\* runControllers(globalsContext) is called and passes its two checks:
\* let runAgain = true; iter = 0.  A call made while runningControllers is set
\* throws before the loop; it is made from inside invoke(), which then throws.
RCall ==
    /\ rPc = "idle" \/ RunEnded
    /\ ~rRunning
    /\ rPc' = "loop"
    /\ rIter' = 0
    /\ rCalls' = 0
    /\ rRunAgain' = TRUE
    /\ rCallLog' = CallLog(rPc, FALSE, 0, 0)
    /\ UNCHANGED rRunning

\* runControllers(globalsContext) called from outside a run or from inside
\* invoke(): the flag is read first, and a set flag throws 'Re-entrant call
\* detected' into the caller before anything else is done.
RRunControllers ==
    /\ rPc \in {"idle", "invoking"} \/ RunEnded
    /\ IF rRunning
          THEN /\ rCallLog' = CallLog(rPc, TRUE, rIter, rCalls)
               /\ UNCHANGED <<rPc, rIter, rCalls, rRunning, rRunAgain>>
          ELSE /\ rPc' = "loop"
               /\ rIter' = 0
               /\ rCalls' = 0
               /\ rRunAgain' = TRUE
               /\ rCallLog' = CallLog(rPc, FALSE, 0, 0)
               /\ rRunning' = rRunning

\* The head of the loop body finds the cap exceeded and throws.
RLivelock ==
    /\ rPc = "loop"
    /\ LivelockExceeded(rIter)
    /\ rPc' = "livelock"
    /\ UNCHANGED <<rIter, rCalls, rRunning, rRunAgain, rCallLog>>

\* runningControllersMap.set(globalsContext, true); invoke() is entered
RInvoke ==
    /\ rPc = "loop"
    /\ ~LivelockExceeded(rIter)
    /\ rRunning' = TRUE
    /\ rCalls' = rCalls + 1
    /\ rPc' = "invoking"
    /\ UNCHANGED <<rIter, rRunAgain, rCallLog>>

\* invoke() returns runAgain; finally resets the flag; iter++; the loop
\* condition is tested.
RInvokeReturns(runAgain) ==
    /\ rPc = "invoking"
    /\ rRunning' = RunningAfterInvoke(FALSE)
    /\ rRunAgain' = runAgain
    /\ rIter' = rIter + 1
    /\ rPc' = IF runAgain THEN "loop" ELSE "returned"
    /\ UNCHANGED <<rCalls, rCallLog>>

\* invoke() throws (a controller's error, or a re-entrant runControllers call
\* inside it): finally resets the flag and the error leaves runControllers.
RInvokeThrows ==
    /\ rPc = "invoking"
    /\ rRunning' = RunningAfterInvoke(TRUE)
    /\ rPc' = "threw"
    /\ UNCHANGED <<rIter, rCalls, rRunAgain, rCallLog>>

RIdle == RInit

(***************************************************************************)
(* String interning in the row loop: slices.titles[row] =                  *)
(* internString(it.name), on the strings, titles and row names alone.      *)
(***************************************************************************)
MaxInternRows == 3     \* rows a run stores on top of the rows already stored

\* A response in the making after n rows of n distinct names, the decimal
\* numerals from "0" on.
InternedNames(n) == [k \in 1..n |-> NumToStr(k - 1)]
InternedTitles(n) == [k \in 1..n |-> ToUint16(k - 1)]

\* slices.strings, slices.titles and the names of the rows stored so far: the
\* iBase rows stored before the run, then the rows the run stored.
Strings == InternedNames(iBase) \o iStrings
Titles == InternedTitles(iBase) \o iTitles
Names == InternedNames(iBase) \o iNames

RowNames == {"a", "b", "c", "0"}

IInit ==
    /\ iBase \in {0, Uint16 - 1}
    /\ iStrings = <<>>
    /\ iTitles = <<>>
    /\ iNames = <<>>
    /\ iRows = 0

\* slices.titles[row] = internString(it.name)
IStoreRow(name) ==
    /\ iRows < MaxInternRows
    /\ iTitles' = Append(iTitles, ToUint16(InternIndex(Strings, name)))
    /\ iStrings' = SubSeq(InternStrings(Strings, name), iBase + 1,
                          Len(InternStrings(Strings, name)))
    /\ iNames' = Append(iNames, name)
    /\ iRows' = iRows + 1
    /\ UNCHANGED iBase

IIdle ==
    /\ iBase = 0
    /\ iStrings = <<>>
    /\ iTitles = <<>>
    /\ iNames = <<>>
    /\ iRows = 0

(***************************************************************************)
(* publishTrackData called for any key of the track data store: a track's  *)
(* id or one of the three log keys.                                        *)
(***************************************************************************)
NoCall == [id |-> "", data |-> [length |-> -1], redrawBefore |-> REDRAW_NONE]

PublishArgs ==
    [id : {CtlTrackId, LogBoundsKey, LogEntriesKey}, data : {[length |-> 0], [length |-> 1]}]
    \cup [id : {LogExistsKey}, data : [exists : BOOLEAN]]

PIdle == pLast = NoCall

\* publishTrackData(args)
PPublishTrackData(args) ==
    /\ trackDataStore' = PublishTrackDataStore(trackDataStore, args.id, args.data)
    /\ redraw' = PublishTrackDataRedraw(trackDataStore, redraw, args.id, args.data)
    /\ pLast' = [id |-> args.id, data |-> args.data, redrawBefore |-> redraw]
    /\ UNCHANGED <<cTable, cKind, cMaxDurNs, cReqs, cResolved, cPublished>>

\* The animation frame fires between two publishTrackData calls.
PFrame == CFrame /\ pLast' = NoCall

XIdle == HIdle /\ RIdle /\ IIdle /\ PIdle

(***************************************************************************)
(* Two tracks, each with a controller instance of its own: maxDurNs is a   *)
(* private field of the instance (private maxDurNs: TPDuration = 0n).      *)
(***************************************************************************)
MaxTrackReqs == 2      \* onBoundsChange calls made on one controller

CtlTrackIds == {"t1", "t2"}

\* Mutant of CacheAfterProbe: one cache shared by the controllers.
CacheAfterProbe_Global(cache, k, maxDurNs) == [j \in DOMAIN cache |-> maxDurNs]

\* this.maxDurNs = queryRes.firstRow({maxDur: LONG_NULL}).maxDur || 0n
CacheAfterProbe(cache, k, maxDurNs) == [cache EXCEPT ![k] = maxDurNs]

MInit ==
    /\ mTable \in [CtlTrackIds -> CtlTables]
    /\ mMaxDurNs = [k \in CtlTrackIds |-> 0]
    /\ mReqs = [k \in CtlTrackIds |-> <<>>]

\* onBoundsChange(start, end, resolution) of track k's controller up to its
\* first await.
MOnBoundsChange(k, req) ==
    /\ Len(mReqs[k]) < MaxTrackReqs
    /\ mReqs' = [mReqs EXCEPT ![k] = Append(@,
                    IF mMaxDurNs[k] = 0
                    THEN [req |-> req, pc |-> "probe", maxDurNs |-> 0, rows |-> {}]
                    ELSE [req |-> req, pc |-> "main", maxDurNs |-> mMaxDurNs[k],
                          rows |-> {}])]
    /\ UNCHANGED <<mTable, mMaxDurNs>>

\* The probe of call r of track k resolves: this.maxDurNs is assigned and the
\* main query is built from it.
MProbeDone(k, r) ==
    /\ r \in 1..Len(mReqs[k])
    /\ mReqs[k][r].pc = "probe"
    /\ mMaxDurNs' = CacheAfterProbe(mMaxDurNs, k, MaxDurQuery(mTable[k], CtlTraceEnd))
    /\ mReqs' = [mReqs EXCEPT ![k][r].pc = "main", ![k][r].maxDurNs = mMaxDurNs'[k]]
    /\ UNCHANGED mTable

\* The main query of call r of track k resolves with the rows its filter kept.
MMainDone(k, r) ==
    /\ r \in 1..Len(mReqs[k])
    /\ mReqs[k][r].pc = "main"
    /\ mReqs' = [mReqs EXCEPT
                    ![k][r].pc = "done",
                    ![k][r].rows = {s.id : s \in QueryFilter(mTable[k], mReqs[k][r].req.start,
                                                            mReqs[k][r].req.end,
                                                            mReqs[k][r].maxDurNs)}]
    /\ UNCHANGED <<mTable, mMaxDurNs>>

MIdle ==
    /\ mTable = [k \in CtlTrackIds |-> {}]
    /\ mMaxDurNs = [k \in CtlTrackIds |-> 0]
    /\ mReqs = [k \in CtlTrackIds |-> <<>>]

(***************************************************************************)
(* renderCanvas of ChromeSliceTrack: the drawing calls of one pass, each    *)
(* with the row (1-based) it draws.                                        *)
(***************************************************************************)
NoSelection == -1
Selections == {NoSelection, 11, 12, 99}

DrawOp(op, i) == [op |-> op, row |-> i]

\* const isSelected = currentSelection && currentSelection.kind === 'CHROME_SLICE'
\*     && currentSelection.id !== undefined && currentSelection.id === sliceId
IsSelected(data, sel, i) == sel # NoSelection /\ sel = data.sliceIds[i]

\* Mutant of RenderRow: the outline is drawn where the row is drawn.
RenderRow_OutlineInLoop(acc, data, view, sel, i) ==
    IF ~RenderRect(data, view, i).visible THEN acc
    ELSE IF data.isInstant[i] = 1
    THEN [acc EXCEPT !.ops = @ \o (IF IsSelected(data, sel, i)
                                   THEN <<DrawOp("outerChevron", i), DrawOp("innerChevron", i)>>
                                   ELSE <<DrawOp("chevron", i)>>)]
    ELSE [acc EXCEPT !.ops = @ \o <<DrawOp("fill", i)>>
                                \o (IF IsSelected(data, sel, i)
                                    THEN <<DrawOp("strokeRect", i)>> ELSE <<>>)
                                \o <<DrawOp("text", i)>>]

\* One iteration of the row loop of renderCanvas: acc.ops are the calls made so
\* far and acc.drawRectOnSelected the calls the closure of that name will make.
RenderRow(acc, data, view, sel, i) ==
    IF ~RenderRect(data, view, i).visible THEN acc
    ELSE IF data.isInstant[i] = 1
    THEN IF IsSelected(data, sel, i)
         THEN [acc EXCEPT !.drawRectOnSelected =
                              <<DrawOp("outerChevron", i), DrawOp("innerChevron", i)>>]
         ELSE [acc EXCEPT !.ops = Append(@, DrawOp("chevron", i))]
    ELSE [ops |-> acc.ops \o <<DrawOp("fill", i), DrawOp("text", i)>>,
          drawRectOnSelected |-> IF IsSelected(data, sel, i)
                                 THEN <<DrawOp("strokeRect", i)>>
                                 ELSE acc.drawRectOnSelected]

RECURSIVE RenderRows(_, _, _, _, _)
RenderRows(acc, data, view, sel, i) ==
    IF i > Len(data.starts) THEN acc
    ELSE RenderRows(RenderRow(acc, data, view, sel, i), data, view, sel, i + 1)

\* ChromeSliceTrack.renderCanvas(ctx): the loop, then drawRectOnSelected()
renderCanvas(data, view, sel) ==
    IF data = NoData THEN <<>>
    ELSE LET end == RenderRows([ops |-> <<>>, drawRectOnSelected |-> <<>>], data, view, sel, 1)
         IN end.ops \o end.drawRectOnSelected

RenderViews ==
    [nsPerPx : {1}, windowEnd : {90, 240}, scaleFactor : {1}, glyph : {CHEVRON, DIAMOND}]

DInit ==
    /\ hData \in {NoData} \cup {HitData(rows) : rows \in HitRowLists(MaxHitRows)}
    /\ hView \in RenderViews
    /\ hPoint = NoPoint
    /\ hResult = NoHit
    /\ dSel = NoSelection
    /\ dOps = <<>>

DRenderCanvas(sel) ==
    /\ dSel' = sel
    /\ dOps' = renderCanvas(hData, hView, sel)

DIdle ==
    /\ dSel = NoSelection
    /\ dOps = <<>>

(***************************************************************************)
(* The plugin manager (ui/src/common/plugins.ts).  A plugin's activate     *)
(* function is the list of the registrations it makes on its context.      *)
(***************************************************************************)
MaxActivations == 3

Registration(registry, kind, supersede) ==
    [registry |-> registry, kind |-> kind, supersede |-> supersede]

\* the statically registered plugins (pluginRegistry) and what each activate does
PluginIds == {"p1", "p2", "p3"}
PluginActivate(pluginId) ==
    CASE pluginId = "p1" -> <<Registration("track", "K1", FALSE),
                              Registration("controller", "K1", FALSE)>>
      [] pluginId = "p2" -> <<Registration("track", "K2", TRUE)>>
      [] OTHER -> <<>>

\* Registry.register(registrant, supersede)
RegistryRegister(kinds, kind, supersede) ==
    IF kind \in kinds /\ ~supersede
        THEN [kinds |-> kinds, threw |-> TRUE]
        ELSE [kinds |-> kinds \cup {kind}, threw |-> FALSE]

\* PluginContextImpl.registerTrack / registerTrackController
registerTrack(regs, kind, supersede) ==
    LET r == RegistryRegister(regs.tracks, kind, supersede)
    IN [regs EXCEPT !.tracks = r.kinds, !.threw = r.threw]
registerTrackController(regs, kind, supersede) ==
    LET r == RegistryRegister(regs.controllers, kind, supersede)
    IN [regs EXCEPT !.controllers = r.kinds, !.threw = r.threw]

\* pluginInfo.activate(context): the registrations in order, up to the first throw
RECURSIVE RunActivate(_, _)
RunActivate(regs, calls) ==
    IF calls = <<>> \/ regs.threw THEN regs
    ELSE LET c == Head(calls)
             after == IF c.registry = "track"
                          THEN registerTrack(regs, c.kind, c.supersede)
                          ELSE registerTrackController(regs, c.kind, c.supersede)
         IN RunActivate(after, Tail(calls))

\* PluginManager.isActive
isActive(contexts, pluginId) == pluginId \in contexts

\* PluginContextImpl.revoke
revoke(regs) == regs

NoPluginCall == [op |-> "none", pluginId |-> "none", wasActive |-> FALSE,
                 callsBefore |-> 0, threw |-> FALSE]

GInit ==
    /\ gContexts = {}
    /\ gTracks = {}
    /\ gControllers = {}
    /\ gCalls = [p \in PluginIds |-> 0]
    /\ gLast = NoPluginCall

\* PluginManager.activatePlugin
activatePlugin(pluginId) ==
    LET wasActive == isActive(gContexts, pluginId)
        regs == [tracks |-> gTracks, controllers |-> gControllers, threw |-> FALSE]
        ran == RunActivate(regs, PluginActivate(pluginId))
    IN /\ wasActive \/ gCalls[pluginId] < MaxActivations
       /\ gLast' = [op |-> "activatePlugin", pluginId |-> pluginId,
                    wasActive |-> wasActive, callsBefore |-> gCalls[pluginId],
                    threw |-> ~wasActive /\ ran.threw]
       /\ IF wasActive
              THEN UNCHANGED <<gContexts, gTracks, gControllers, gCalls>>
              ELSE /\ gContexts' = gContexts \cup {pluginId}
                   /\ gCalls' = [gCalls EXCEPT ![pluginId] = @ + 1]
                   /\ gTracks' = ran.tracks
                   /\ gControllers' = ran.controllers

\* PluginManager.deactivatePlugin
deactivatePlugin(pluginId) ==
    LET wasActive == isActive(gContexts, pluginId)
        regs == revoke([tracks |-> gTracks, controllers |-> gControllers, threw |-> FALSE])
    IN /\ gLast' = [op |-> "deactivatePlugin", pluginId |-> pluginId,
                    wasActive |-> wasActive, callsBefore |-> gCalls[pluginId],
                    threw |-> FALSE]
       /\ gCalls' = gCalls
       /\ IF wasActive
              THEN /\ gContexts' = gContexts \ {pluginId}
                   /\ gTracks' = regs.tracks
                   /\ gControllers' = regs.controllers
              ELSE UNCHANGED <<gContexts, gTracks, gControllers>>

GIdle == GInit

(***************************************************************************)
(* updateFtraceFilter (actions.ts), on state.ftraceFilter.excludedNames.   *)
(* The handler keeps the array it read before its loop in a local, while   *)
(* 'remove' assigns a new array to the state.                              *)
(***************************************************************************)
MaxPatchLen == 2

FtraceNames == {"a", "b", "c"}
StringListPatch == {<<addRemove, name>> : addRemove \in {"add", "remove"}, name \in FtraceNames}
RECURSIVE PatchLists(_)
PatchLists(n) ==
    IF n = 0 THEN {<<>>}
    ELSE PatchLists(n - 1)
         \cup {Append(l, d) : l \in {q \in PatchLists(n - 1) : Len(q) = n - 1},
                               d \in StringListPatch}
NoDuplicates(seq) == \A i, j \in 1..Len(seq) : seq[i] = seq[j] => i = j
ExcludedNamesLists ==
    {l \in UNION {[1..k -> FtraceNames] : k \in 0..Cardinality(FtraceNames)} : NoDuplicates(l)}

\* One entry of the patch.  local is the array the const excludedNames holds,
\* names is state.ftraceFilter.excludedNames, same tells whether they are
\* still one array.
ApplyDiff(acc, diff) ==
    LET addRemove == diff[1]
        name == diff[2]
    IN IF addRemove = "add"
       THEN IF SeqIncludes(acc.local, name) THEN acc
            ELSE [acc EXCEPT !.local = Append(@, name),
                             !.names = IF acc.same THEN Append(@, name) ELSE @]
       ELSE [acc EXCEPT !.names = SeqWithout(@, name), !.same = FALSE]

RECURSIVE ApplyDiffs(_, _)
ApplyDiffs(acc, diffs) ==
    IF diffs = <<>> THEN acc
    ELSE ApplyDiffs(ApplyDiff(acc, Head(diffs)), Tail(diffs))

\* StateActions.updateFtraceFilter: excludedNames afterwards
updateFtraceFilter(excludedNames, diffs) ==
    ApplyDiffs([local |-> excludedNames, names |-> excludedNames, same |-> TRUE], diffs).names

FInit ==
    /\ fNames \in ExcludedNamesLists
    /\ fPrev = fNames
    /\ fPatch = <<>>

FUpdateFtraceFilter(diffs) ==
    /\ fNames' = updateFtraceFilter(fNames, diffs)
    /\ fPrev' = fNames
    /\ fPatch' = diffs

FIdle ==
    /\ fNames = <<>>
    /\ fPrev = <<>>
    /\ fPatch = <<>>

(***************************************************************************)
(* The metrics actions (actions.ts) on state.metrics.  An undefined        *)
(* availableMetrics or selectedIndex is the flag hasMetrics or hasIndex    *)
(* being FALSE.                                                            *)
(***************************************************************************)
NoMetrics ==
    [hasMetrics |-> FALSE, availableMetrics |-> <<>>, hasIndex |-> FALSE,
     selectedIndex |-> 0, requestedMetric |-> Undefined]

MetricLists == {<<>>, <<"m1">>, <<"m1", "m2">>, <<"m3", "m1", "m2">>}
MetricIndexes == -1..3

\* availableMetrics[index], index being 0-based
MetricAt(availableMetrics, index) ==
    IF index >= 0 /\ index < Len(availableMetrics) THEN availableMetrics[index + 1]
    ELSE Undefined

\* StateActions.requestSelectedMetric
requestSelectedMetric(metrics, args) ==
    IF ~metrics.hasMetrics THEN [st |-> metrics, err |-> TRUE]
    ELSE IF ~metrics.hasIndex THEN [st |-> metrics, err |-> TRUE]
    ELSE [st |-> [metrics EXCEPT !.requestedMetric =
                                     MetricAt(metrics.availableMetrics, metrics.selectedIndex)],
          err |-> FALSE]

\* StateActions.setAvailableMetrics
setAvailableMetrics(metrics, args) ==
    LET m1 == [metrics EXCEPT !.hasMetrics = TRUE,
                              !.availableMetrics = args.availableMetrics]
    IN [st |-> IF Len(args.availableMetrics) > 0
                  THEN [m1 EXCEPT !.hasIndex = TRUE, !.selectedIndex = 0]
                  ELSE m1,
        err |-> FALSE]

\* StateActions.setMetricSelectedIndex
setMetricSelectedIndex(metrics, args) ==
    IF ~metrics.hasMetrics \/ args.index >= Len(metrics.availableMetrics)
    THEN [st |-> metrics, err |-> TRUE]
    ELSE [st |-> [metrics EXCEPT !.hasIndex = TRUE, !.selectedIndex = args.index],
          err |-> FALSE]

KInit ==
    /\ kMetrics = NoMetrics
    /\ kLast = [type |-> "", args |-> << >>]
    /\ kRaised = FALSE

\* dispatch of a metrics action: the draft is kept unless the handler threw
KDispatch(type, args, r) ==
    /\ kMetrics' = IF r.err THEN kMetrics ELSE r.st
    /\ kLast' = [type |-> type, args |-> args]
    /\ kRaised' = r.err

KIdle == KInit

(***************************************************************************)
(* Selections with scroll = true and publishSliceDetails (actions.ts,      *)
(* part_001).  Each selection of a slice has its details fetched; the      *)
(* details are published later, in any order.                              *)
(***************************************************************************)
MaxSelections == 2
NoPendingScroll == -1      \* pendingScrollId undefined; row ids are not negative

SliceKinds == {"SLICE", "CHROME_SLICE", "LOG"}
SliceIds == {5, 6}

NoSliceSelection == [n |-> 0, kind |-> "null", id |-> NoPendingScroll, scroll |-> FALSE]
NoDetails == [n |-> 0, kind |-> "null", id |-> NoPendingScroll,
              selection |-> NoSliceSelection, pendingBefore |-> NoPendingScroll,
              pendingAfter |-> NoPendingScroll, scrolled |-> FALSE]

\* state.pendingScrollId = args.scroll ? args.id : undefined
PendingAfterSelect(args) == IF args.scroll THEN args.id ELSE NoPendingScroll

\* publishSliceDetails: id !== undefined && id === state.pendingScrollId
DetailsMatchPending(id, pendingScrollId) == id = pendingScrollId

WInit ==
    /\ wSelection = NoSliceSelection
    /\ wPending = NoPendingScroll
    /\ wInFlight = {}
    /\ wLast = NoDetails

\* StateActions.selectSlice / selectChromeSlice / selectLog; the details of a
\* selected slice are then requested
WSelect(kind, args) ==
    /\ wSelection.n < MaxSelections
    /\ wSelection' = [n |-> wSelection.n + 1, kind |-> kind, id |-> args.id,
                      scroll |-> args.scroll]
    /\ wPending' = PendingAfterSelect(args)
    /\ wInFlight' = IF kind = "LOG" THEN wInFlight
                    ELSE wInFlight \cup {[n |-> wSelection.n + 1, kind |-> kind, id |-> args.id]}
    /\ UNCHANGED wLast

\* publishSliceDetails(click) with the details of one selection made earlier
WPublishSliceDetails(req) ==
    LET match == DetailsMatchPending(req.id, wPending)
    IN /\ req \in wInFlight
       /\ wInFlight' = wInFlight \ {req}
       /\ wPending' = IF match THEN NoPendingScroll ELSE wPending
       /\ wLast' = [n |-> req.n, kind |-> req.kind, id |-> req.id,
                    selection |-> wSelection, pendingBefore |-> wPending,
                    pendingAfter |-> IF match THEN NoPendingScroll ELSE wPending,
                    scrolled |-> match]
       /\ UNCHANGED wSelection

WIdle == WInit

ZIdle == FIdle /\ KIdle /\ WIdle

YIdle == MIdle /\ DIdle /\ GIdle /\ ZIdle

(***************************************************************************)
(* Specifications.                                                         *)
(***************************************************************************)
QNext == (\E req \in Requests : QOnBoundsChange(req)) /\ UNCHANGED <<cvars, svars, xvars, yvars>>
InitQuant == QInit /\ CIdle /\ SInit /\ XIdle /\ YIdle
SpecQuant == InitQuant /\ [][QNext]_vars

CRequest == (\E req \in CtlRequests : COnBoundsChange(req)) /\ UNCHANGED <<qvars, svars, xvars, yvars>>
CProbeResolves == (\E r \in 1..MaxReqs : CProbeDone(r)) /\ UNCHANGED <<qvars, svars, xvars, yvars>>
CMainResolves == (\E r \in 1..MaxReqs : CMainDone(r)) /\ UNCHANGED <<qvars, svars, xvars, yvars>>
CFrameFires == CFrame /\ UNCHANGED <<qvars, svars, xvars, yvars>>
CNext == CRequest \/ CProbeResolves \/ CMainResolves \/ CFrameFires
InitCtl == CInit /\ QIdle /\ SInit /\ XIdle /\ YIdle
SpecCtl == InitCtl /\ [][CNext]_vars

\* The store under the track actions and the track panel's resize handler
TracksNext ==
    \/ Dispatch_addTrack
    \/ Dispatch_addTracks
    \/ Dispatch_addTrackGroup
    \/ Dispatch_addDebugTrack
    \/ Dispatch_removeDebugTrack
    \/ Dispatch_removeTrack
    \/ Dispatch_removeTrackGroup
    \/ Dispatch_removeVisualisedArgTracks
    \/ Dispatch_updateTrackConfig
    \/ Dispatch_toggleTrackPinned
    \/ Dispatch_toggleTrackGroupCollapsed
    \/ Dispatch_selectArea
    \/ Dispatch_toggleTrackSelection
    \/ Dispatch_addNote
    \/ Dispatch_removeNote
    \/ Dispatch_changeNoteColor
    \/ Dispatch_changeNoteText
    \/ ResizeTrackMouseMove
InitStore == SInit /\ QIdle /\ CIdle /\ XIdle /\ YIdle
SpecTracks == InitStore /\ [][TracksNext]_vars

\* The track lists of a loaded trace under the actions that reorder them
ListsNext ==
    \/ Lists_addTrack
    \/ Lists_removeTrack
    \/ Lists_toggleTrackPinned
    \/ Dispatch_moveTrack
    \/ Dispatch_clearAllPinnedTracks
InitLists == LInit /\ QIdle /\ CIdle /\ XIdle /\ YIdle
SpecLists == InitLists /\ [][ListsNext]_vars

\* The tracks and groups of a loaded trace under the adding and removing actions
GroupsNext ==
    \/ Dispatch_addTrackGroup
    \/ Lists_addTrack
    \/ Lists_removeTrack
    \/ Dispatch_removeTrackGroup
SpecGroups == InitLists /\ [][GroupsNext]_vars

\* The store under the session, note, area and selection actions
SessionNext ==
    \/ Dispatch_openTraceFromFile
    \/ Dispatch_openTraceFromBuffer
    \/ Dispatch_openTraceFromUrl
    \/ Dispatch_openTraceFromStream
    \/ Dispatch_openTraceFromHttpRpc
    \/ Dispatch_createPermalink
    \/ Dispatch_loadPermalink
    \/ Dispatch_setState
    \/ Dispatch_selectNote
    \/ Dispatch_addNote
    \/ Dispatch_markCurrentArea
    \/ Dispatch_toggleMarkCurrentArea
    \/ Dispatch_markArea
    \/ Dispatch_removeNote
    \/ Dispatch_deselect
    \/ Dispatch_selectArea
    \/ Dispatch_editArea
    \/ Dispatch_reSelectArea
    \/ Dispatch_togglePivotTable
SpecSession == InitStore /\ [][SessionNext]_vars

\* The store under the actions that select, mark and unmark areas
AreaNotesNext ==
    \/ Dispatch_selectArea
    \/ Dispatch_markArea
    \/ Dispatch_markCurrentArea
    \/ Dispatch_toggleMarkCurrentArea
    \/ Dispatch_editArea
    \/ Dispatch_removeNote
    \/ Dispatch_selectNote
    \/ Dispatch_deselect
SpecAreaNotes == InitStore /\ [][AreaNotesNext]_vars

\* The store under the area actions, reSelectArea with any IDs among them
AreaMarksNext ==
    \/ Dispatch_selectArea
    \/ Areas_reSelectArea
    \/ Dispatch_markArea
    \/ Dispatch_markCurrentArea
    \/ Dispatch_toggleMarkCurrentArea
    \/ Dispatch_editArea
    \/ Dispatch_removeNote
SpecAreaMarks == InitStore /\ [][AreaMarksNext]_vars

\* The store under the actions that open a trace and report its engine ready
EngineNext ==
    \/ Dispatch_openTraceFromFile
    \/ Dispatch_openTraceFromBuffer
    \/ Dispatch_openTraceFromUrl
    \/ Dispatch_openTraceFromStream
    \/ Dispatch_openTraceFromHttpRpc
    \/ Dispatch_setEngineReady
SpecEngine == InitStore /\ [][EngineNext]_vars

\* The store under the permalink actions: requests and their late answers
PermalinkNext ==
    \/ Dispatch_createPermalink
    \/ Dispatch_setPermalink
    \/ Dispatch_loadPermalink
    \/ Dispatch_clearPermalink
SpecPermalink == InitStore /\ [][PermalinkNext]_vars

\* Hit-testing a track's Data
HitNext ==
    (\E x \in HitXs, y \in HitYs : HGetSliceIndex(x, y))
    /\ UNCHANGED <<qvars, cvars, svars, rvars, ivars, pvars, yvars>>
InitHit == HInit /\ QIdle /\ CIdle /\ SInit /\ RIdle /\ IIdle /\ PIdle /\ YIdle
SpecHit == InitHit /\ [][HitNext]_vars

\* runControllers called again and again; invoke() returns or throws
RCalled == RCall /\ UNCHANGED <<qvars, cvars, svars, hvars, ivars, pvars, yvars>>
RCapExceeded == RLivelock /\ UNCHANGED <<qvars, cvars, svars, hvars, ivars, pvars, yvars>>
RInvoked == RInvoke /\ UNCHANGED <<qvars, cvars, svars, hvars, ivars, pvars, yvars>>
RInvokeEnds ==
    ((\E runAgain \in BOOLEAN : RInvokeReturns(runAgain)) \/ RInvokeThrows)
    /\ UNCHANGED <<qvars, cvars, svars, hvars, ivars, pvars, yvars>>
RunStep == RCapExceeded \/ RInvoked \/ RInvokeEnds
RunNext == RCalled \/ RunStep
InitRun == RInit /\ QIdle /\ CIdle /\ SInit /\ HIdle /\ IIdle /\ PIdle /\ YIdle
\* A call that has started keeps running, and invoke() comes back.
SpecRun == InitRun /\ [][RunNext]_vars /\ WF_vars(RunStep)

\* runControllers called from anywhere a call can be made, invoke() included
RCalledAnywhere ==
    RRunControllers /\ UNCHANGED <<qvars, cvars, svars, hvars, ivars, pvars, yvars>>
ReentryNext == RCalledAnywhere \/ RCapExceeded \/ RInvoked \/ RInvokeEnds
SpecReentry == InitRun /\ [][ReentryNext]_vars

\* The row loop interning the names of its rows
InternNext ==
    (\E name \in RowNames : IStoreRow(name))
    /\ UNCHANGED <<qvars, cvars, svars, hvars, rvars, pvars, yvars>>
InitIntern == IInit /\ QIdle /\ CIdle /\ SInit /\ HIdle /\ RIdle /\ PIdle /\ YIdle
SpecIntern == InitIntern /\ [][InternNext]_vars

\* publishTrackData calls and animation frames
PPublishes ==
    (\E args \in PublishArgs : PPublishTrackData(args))
    /\ UNCHANGED <<qvars, svars, hvars, rvars, ivars, yvars>>
PFrameFires == PFrame /\ UNCHANGED <<qvars, svars, hvars, rvars, ivars, yvars>>
PublishNext == PPublishes \/ PFrameFires
InitPublish == CIdle /\ QIdle /\ SInit /\ HIdle /\ RIdle /\ IIdle /\ PIdle /\ YIdle
SpecPublish == InitPublish /\ [][PublishNext]_vars

\* The controllers of two tracks, their queries resolving in any order
MRequest ==
    (\E k \in CtlTrackIds, req \in CtlRequests : MOnBoundsChange(k, req))
    /\ UNCHANGED <<qvars, cvars, svars, xvars, dvars, gvars, zvars>>
MProbeResolves ==
    (\E k \in CtlTrackIds, r \in 1..MaxTrackReqs : MProbeDone(k, r))
    /\ UNCHANGED <<qvars, cvars, svars, xvars, dvars, gvars, zvars>>
MMainResolves ==
    (\E k \in CtlTrackIds, r \in 1..MaxTrackReqs : MMainDone(k, r))
    /\ UNCHANGED <<qvars, cvars, svars, xvars, dvars, gvars, zvars>>
TwoCtlNext == MRequest \/ MProbeResolves \/ MMainResolves
InitTwoCtl == MInit /\ QIdle /\ CIdle /\ SInit /\ XIdle /\ DIdle /\ GIdle /\ ZIdle
SpecTwoCtl == InitTwoCtl /\ [][TwoCtlNext]_vars

\* renderCanvas passes over one Data under any selection
RenderNext ==
    (\E sel \in Selections : DRenderCanvas(sel))
    /\ UNCHANGED <<qvars, cvars, svars, xvars, mvars, gvars, zvars>>
InitRender == DInit /\ QIdle /\ CIdle /\ SInit /\ RIdle /\ IIdle /\ PIdle /\ MIdle /\ GIdle /\ ZIdle
SpecRender == InitRender /\ [][RenderNext]_vars

\* Plugins toggled on and off in any order
GActivates ==
    (\E pluginId \in PluginIds : activatePlugin(pluginId))
    /\ UNCHANGED <<qvars, cvars, svars, xvars, mvars, dvars, zvars>>
GDeactivates ==
    (\E pluginId \in PluginIds : deactivatePlugin(pluginId))
    /\ UNCHANGED <<qvars, cvars, svars, xvars, mvars, dvars, zvars>>
PluginsNext == GActivates \/ GDeactivates
InitPlugins == GInit /\ QIdle /\ CIdle /\ SInit /\ XIdle /\ MIdle /\ DIdle /\ ZIdle
SpecPlugins == InitPlugins /\ [][PluginsNext]_vars

\* updateFtraceFilter dispatched with any patch on any filter
FtraceNext ==
    (\E diffs \in PatchLists(MaxPatchLen) : FUpdateFtraceFilter(diffs))
    /\ UNCHANGED <<qvars, cvars, svars, xvars, mvars, dvars, gvars, kvars, wvars>>
InitFtrace == FInit /\ QIdle /\ CIdle /\ SInit /\ XIdle /\ MIdle /\ DIdle /\ GIdle /\ KIdle /\ WIdle
SpecFtrace == InitFtrace /\ [][FtraceNext]_vars

\* The metrics actions in any order
KSetAvailableMetrics ==
    (\E args \in [availableMetrics : MetricLists] :
        KDispatch("setAvailableMetrics", args, setAvailableMetrics(kMetrics, args)))
    /\ UNCHANGED <<qvars, cvars, svars, xvars, mvars, dvars, gvars, fvars, wvars>>
KSetMetricSelectedIndex ==
    (\E args \in [index : MetricIndexes] :
        KDispatch("setMetricSelectedIndex", args, setMetricSelectedIndex(kMetrics, args)))
    /\ UNCHANGED <<qvars, cvars, svars, xvars, mvars, dvars, gvars, fvars, wvars>>
KRequestSelectedMetric ==
    KDispatch("requestSelectedMetric", << >>, requestSelectedMetric(kMetrics, << >>))
    /\ UNCHANGED <<qvars, cvars, svars, xvars, mvars, dvars, gvars, fvars, wvars>>
MetricsNext == KSetAvailableMetrics \/ KSetMetricSelectedIndex \/ KRequestSelectedMetric
InitMetrics == KInit /\ QIdle /\ CIdle /\ SInit /\ XIdle /\ MIdle /\ DIdle /\ GIdle /\ FIdle /\ WIdle
SpecMetrics == InitMetrics /\ [][MetricsNext]_vars

\* Selections that scroll, and their slice details arriving in any order
WSelects ==
    (\E kind \in SliceKinds, args \in [id : SliceIds, scroll : BOOLEAN] : WSelect(kind, args))
    /\ UNCHANGED <<qvars, cvars, svars, xvars, mvars, dvars, gvars, fvars, kvars>>
WPublishes ==
    (\E req \in wInFlight : WPublishSliceDetails(req))
    /\ UNCHANGED <<qvars, cvars, svars, xvars, mvars, dvars, gvars, fvars, kvars>>
ScrollNext == WSelects \/ WPublishes
InitScroll == WInit /\ QIdle /\ CIdle /\ SInit /\ XIdle /\ MIdle /\ DIdle /\ GIdle /\ FIdle /\ KIdle
SpecScroll == InitScroll /\ [][ScrollNext]_vars

(***************************************************************************)
(* The claims.                                                             *)
(***************************************************************************)
AllReturned == \A r \in 1..Len(cReqs) : cReqs[r].pc = "done"

StrictlyIncreasing(seq) == \A i, j \in 1..Len(seq) : i < j => seq[i] < seq[j]

Dispatched(type) == last.via = "dispatch" /\ last.type = type

\* C2 (as stated): a second store that starts from the same initial state and
\* receives the same ordered log of actions (type and args) is always in the
\* same state as the first.
C2_ReplayDeterminism == replica = state

\* C5 (as stated): the committed state changes only as the effect of a
\* dispatched action.
C5_OnlyActionsChangeStore == state # prev => last.via = "dispatch"

\* C6 (as stated): a handler that raised an error had made no write to the
\* draft before it raised.
C6_RaiseBeforeAnyWrite == raised => draft = prev

BadAreaCall ==
    /\ \/ Dispatched("markArea")
       \/ Dispatched("selectArea")
       \/ Dispatched("editArea")
    /\ last.args.area.start > last.args.area.end

\* C7: markArea, selectArea and editArea called with area.start > area.end raise
\* an assertion failure and change nothing: the draft the handler leaves is the
\* state it started from (no area or note added or overwritten, currentSelection
\* and nextId untouched) and so is the committed state.
C7_BadAreaRejected == BadAreaCall => (raised /\ draft = prev /\ state = prev)

\* markArea is called with start > end after an area, with its note, was
\* marked, so there is state the bad call could have overwritten.
C7_Witness ==
    /\ Dispatched("markArea")
    /\ last.args.area.start > last.args.area.end
    /\ raised
    /\ prev.areas # EmptyObj
    /\ prev.notes # EmptyObj

AbsentTrackRemoval ==
    \/ Dispatched("removeTrack") /\ ~Has(prev.tracks, last.args.trackId)
    \/ Dispatched("removeTrackGroup") /\ ~Has(prev.trackGroups, last.args.id)

\* C8: removeTrack with a trackId that is not in state.tracks, and
\* removeTrackGroup with an id that is not in state.trackGroups, leave the whole
\* state unchanged and raise no error: nothing is written to the draft (so
\* nothing is appended to filteredTracks) and no table drop is scheduled.
C8_AbsentRemovalIsNoOp ==
    AbsentTrackRemoval => (~raised /\ draft = prev /\ state = prev /\ drops = {})

\* The second of two removeTrack calls on the same ID: the track is gone and
\* its descriptor is already in filteredTracks.
C8_Witness ==
    /\ Dispatched("removeTrack")
    /\ last.args.trackId = "0"
    /\ ~Has(prev.tracks, "0")
    /\ Len(prev.filteredTracks) = 1
    /\ prev.filteredTracks[1].name = "n"

StaleIdCall ==
    \/ Dispatched("removeNote") /\ ~Has(prev.notes, last.args.id)
    \/ Dispatched("changeNoteColor") /\ ~Has(prev.notes, last.args.id)
    \/ Dispatched("changeNoteText") /\ ~Has(prev.notes, last.args.id)
    \/ Dispatched("updateTrackConfig") /\ ~Has(prev.tracks, last.args.id)
    \/ Dispatched("toggleTrackGroupCollapsed") /\ ~Has(prev.trackGroups, last.args.trackGroupId)
    \/ Dispatched("toggleTrackPinned") /\ ~Has(prev.tracks, last.args.trackId)
    \/ Dispatched("removeDebugTrack") /\ ~Has(prev.tracks, last.args.trackId)
    \/ /\ Dispatched("removeVisualisedArgTracks")
       /\ \E i \in 1..Len(last.args.trackIds) : ~Has(prev.tracks, last.args.trackIds[i])
    \/ /\ Dispatched("toggleTrackSelection")
       /\ last.args.isTrackGroup
       /\ ~Has(prev.trackGroups, last.args.id)

\* C9 (as stated): an action given a track, track-group or note ID that names no
\* existing entity completes without raising an error and leaves the state
\* unchanged.
C9_StaleIdIsNoOp == StaleIdCall => (~raised /\ state = prev)

\* C10 (as stated): the numeric value of state.nextId never decreases.
C10_NextIdNeverDecreases == StrToNum(state.nextId) >= StrToNum(prev.nextId)

\* markArea with persistent = true and start <= end, in a state where the two
\* IDs it is about to generate are not keys of state.areas and state.notes
MarkAreaPersistentCall ==
    /\ Dispatched("markArea")
    /\ last.args.persistent
    /\ last.args.area.start <= last.args.area.end
    /\ NumToStr(StrToNum(prev.nextId) + 1) \notin DOMAIN prev.areas
    /\ NumToStr(StrToNum(prev.nextId) + 2) \notin DOMAIN prev.notes

UnmarkCurrentAreaCall ==
    /\ Dispatched("toggleMarkCurrentArea")
    /\ prev.currentSelection.kind = "AREA"
    /\ prev.currentSelection.noteId # Undefined
    /\ Has(prev.notes, prev.currentSelection.noteId)

\* C12: when currentSelection is an AREA selection whose noteId names an
\* existing note, toggleMarkCurrentArea deletes exactly that note, and afterwards
\* currentSelection is still an AREA selection with the same areaId and its
\* noteId cleared; no area record is deleted or changed.
C12_ToggleUnmarksArea ==
    UnmarkCurrentAreaCall =>
        /\ ~raised
        /\ DOMAIN state.notes = DOMAIN prev.notes \ {prev.currentSelection.noteId}
        /\ \A k \in DOMAIN state.notes : state.notes[k] = prev.notes[k]
        /\ state.currentSelection.kind = "AREA"
        /\ state.currentSelection.areaId = prev.currentSelection.areaId
        /\ state.currentSelection.noteId = Undefined
        /\ state.areas = prev.areas

\* The selected area exists and is marked; the toggle removes the mark and the
\* area record stays.
C12_Witness ==
    /\ UnmarkCurrentAreaCall
    /\ Has(prev.areas, prev.currentSelection.areaId)
    /\ prev.notes[prev.currentSelection.noteId].noteType = "AREA"
    /\ Has(state.areas, prev.currentSelection.areaId)
    /\ state.notes = EmptyObj

HitTested == hPoint # NoPoint /\ hData # NoData

\* The time at pixel x and the depth at pixel y of the last call
HitTime == hPoint.x * hView.nsPerPx
HitDepthAtY == (hPoint.y - TRACK_PADDING) \div (DEFAULT_SLICE_HEIGHT * hView.scaleFactor)

\* An instant row is hit within half a chevron of its start.
InstantRowHit(i) ==
    /\ hData.isInstant[i] = 1
    /\ Abs(hData.starts[i] - HitTime) < HALF_CHEVRON_WIDTH_PX * hView.nsPerPx

\* The index getSliceIndex is to return when the rows in Q qualify
LowestOf(Q) ==
    IF hPoint.y < TRACK_PADDING \/ Q = {} THEN NoHit
    ELSE (CHOOSE i \in Q : \A j \in Q : i <= j) - 1

\* C13 as stated: getSliceIndex returns the lowest index i such that depths[i]
\* is floor((y - TRACK_PADDING) / sliceHeight) and the time at pixel x lies in
\* [starts[i], ends[i]] for every non-instant row, and nothing when no row
\* qualifies or y < TRACK_PADDING.
C13_Original ==
    HitTested =>
        hResult = LowestOf({i \in Rows(hData) :
                              /\ hData.depths[i] = HitDepthAtY
                              /\ \/ InstantRowHit(i)
                                 \/ /\ hData.isInstant[i] = 0
                                    /\ hData.starts[i] <= HitTime
                                    /\ HitTime <= hData.ends[i]})

\* C13 amended: getSliceIndex returns the lowest index i such that depths[i] is
\* floor((y - TRACK_PADDING) / sliceHeight) and the time at pixel x lies in
\* [starts[i], ends[i]] for a complete non-instant row, or in [starts[i], end of
\* the visible window] for an incomplete one, and nothing when no row qualifies
\* or y < TRACK_PADDING; for a single complete row drawn at {left: 50, width: 20}
\* on depth 0, (55, 5) yields that row and (100, 5) yields none.
C13_HitTest ==
    HitTested =>
        /\ hResult = LowestOf({i \in Rows(hData) :
                                 /\ hData.depths[i] = HitDepthAtY
                                 /\ \/ InstantRowHit(i)
                                    \/ /\ hData.isInstant[i] = 0
                                       /\ hData.starts[i] <= HitTime
                                       /\ HitTime <= IF hData.isIncomplete[i] = 1
                                                     THEN hView.windowEnd
                                                     ELSE hData.ends[i]})
        /\ (hData = HitData(<<ScenarioRow>>) /\ hView.nsPerPx = 1 /\ hView.scaleFactor = 1) =>
              /\ hPoint = [x |-> 55, y |-> 5] => hResult = 0
              /\ hPoint = [x |-> 100, y |-> 5] => hResult = NoHit

\* The pointer is on depth 0 at a time past the stored end of an incomplete
\* row and outside the complete row before it: the incomplete row is returned.
C13_Witness ==
    /\ HitTested
    /\ Len(hData.starts) = 2
    /\ hData.isInstant[1] = 0 /\ hData.isIncomplete[1] = 0 /\ hData.depths[1] = 0
    /\ hData.isIncomplete[2] = 1
    /\ hData.ends[2] < HitTime
    /\ hPoint.y = 5
    /\ hResult = 1

RunInCall == rPc \in {"loop", "invoking"}

\* C14: runControllers always terminates, given that invoke() comes back: a
\* call returns as soon as invoke() has returned false (it is in its loop only
\* while runAgain is true and has returned only when runAgain is false), throws
\* the livelock error once invoke() has returned true 101 times in a row, and
\* never calls invoke() more than 101 times.
C14_RunControllersTerminates ==
    /\ [](rCalls <= LivelockCap + 1)
    /\ [](RunInCall => rRunAgain)
    /\ [](rPc = "returned" => ~rRunAgain)
    /\ [](rPc = "livelock" => (rRunAgain /\ rCalls = LivelockCap + 1 /\ rIter = LivelockCap + 1))
    /\ [](rRunning <=> rPc = "invoking")
    /\ (RunInCall ~> RunEnded)

\* invoke() returned true 101 times and the call threw the livelock error.
C14_Witness == rPc = "livelock" /\ rCalls = 101

Published == pLast # NoCall

DataStored == pLast.id \in DOMAIN trackDataStore /\ trackDataStore[pLast.id] = pLast.data

LogsExist == LogExistsKey \in DOMAIN trackDataStore /\ trackDataStore[LogExistsKey].exists

\* C15 as stated: every publishTrackData call, for any track id (the log keys
\* included), stores args.data as that track's data and schedules a redraw
\* (content or full) before it returns.
C15_Original ==
    Published => (DataStored /\ redraw \in {REDRAW_CONTENT, REDRAW_FULL})

\* C15 amended: every publishTrackData call stores args.data under args.id; for
\* an id that is not a log key it schedules a redraw; for a log key it schedules
\* a full redraw when the data stored under LogExistsKey says that logs exist,
\* and otherwise schedules nothing (the pending redraw is left as it was).
C15_PublishStoresAndRedraws ==
    Published =>
        /\ DataStored
        /\ pLast.id \notin LogKeys => redraw \in {REDRAW_CONTENT, REDRAW_FULL}
        /\ (pLast.id \in LogKeys /\ LogsExist) => redraw = REDRAW_FULL
        /\ (pLast.id \in LogKeys /\ ~LogsExist) => redraw = pLast.redrawBefore

\* Log entries are published with no redraw pending while logs exist, and a
\* full redraw is scheduled.
C15_Witness ==
    /\ Published
    /\ pLast.id = LogEntriesKey
    /\ LogsExist
    /\ pLast.redrawBefore = REDRAW_NONE
    /\ redraw = REDRAW_FULL

SetStateCall == Dispatched("setState")

\* C16: after setState({newState}) the state has exactly the top-level keys of
\* newState, each with newState's value (nextId included, nothing of the
\* previous state survives), except that engine.ready is false whenever engine
\* is defined.
C16_SetStateReplacesStore ==
    SetStateCall =>
        /\ ~raised
        /\ DOMAIN state = DOMAIN last.args.newState
        /\ \A k \in DOMAIN state \ {"engine"} : state[k] = last.args.newState[k]
        /\ last.args.newState.engine = NoEngine => state.engine = NoEngine
        /\ last.args.newState.engine # NoEngine =>
               /\ state.engine.ready = FALSE
               /\ state.engine.id = last.args.newState.engine.id
               /\ state.engine.source = last.args.newState.engine.source

\* A state with notes and a different counter is replaced by a saved state
\* whose engine was ready.
C16_Witness ==
    /\ SetStateCall
    /\ prev.notes # EmptyObj
    /\ prev.nextId # last.args.newState.nextId
    /\ last.args.newState.engine # NoEngine
    /\ last.args.newState.engine.ready
    /\ state.notes = EmptyObj
    /\ ~state.engine.ready

\* C17: over any sequence of onBoundsChange calls on one controller (tracks
\* whose maximum slice duration is 0 or that have no slices included) the
\* max-duration probe query is issued at most once; every later call issues
\* only the main query.
C17_ProbeAtMostOnce == qProbes <= 1

\* The calls whose main query has been issued
MainIssued == {r \in 1..Len(cReqs) : cReqs[r].pc \in {"main", "done"}}

\* The slices of the track that overlap the window [start, end]
Overlapping(T, start, end, traceEnd) ==
    {s \in T : s.ts <= end /\ s.ts + DurOrToEnd(s, traceEnd) >= start}

\* C18: whenever a main query is issued for window [start, end], every slice
\* of the track with ts <= end and ts + dur >= start (dur taken as trace end
\* minus ts for an incomplete slice) satisfies the query filter
\* start - maxDurNs <= ts <= end, also when two onBoundsChange calls overlap
\* while the probe is still pending.
C18_FilterCoversOverlaps ==
    \A r \in MainIssued :
        Overlapping(cTable, cReqs[r].req.start, cReqs[r].req.end, CtlTraceEnd)
            \subseteq QueryFilter(cTable, cReqs[r].req.start, cReqs[r].req.end,
                                  cReqs[r].maxDurNs)

\* Two calls were made before any probe resolved; the first has issued its main
\* query, for a window that a slice starting below it reaches into, and the
\* second still waits for its probe.
C18_Witness ==
    /\ Len(cReqs) = 2
    /\ cReqs[1].pc = "main"
    /\ cReqs[2].pc = "probe"
    /\ cMaxDurNs # 0
    /\ \E s \in Overlapping(cTable, cReqs[1].req.start, cReqs[1].req.end, CtlTraceEnd) :
           s.ts < cReqs[1].req.start

\* The queried slices of the bucket and depth of row i of the last response
RowGroup(i) ==
    GroupMembers(QueryFilter(qTable, qReq.start, qReq.end, qMaxDurNs), qReq.resolution,
                 <<qData.depths[i], qData.starts[i]>>)

RowGroupMaxDur(i) == SetMax({DurOrToEnd(s, qTraceEnd) : s \in RowGroup(i)})

\* C19: in every response of onBoundsChange no two rows share the same
\* (starts[i], depths[i]) pair, where the bucket of a slice is
\* ((ts + resolution/2) / resolution) * resolution in integer arithmetic, and
\* the duration used for a row is the maximum duration among the queried
\* slices of that bucket and depth.
C19_OneRowPerBucketAndDepth ==
    qData # NoData =>
        /\ \A i, j \in Rows(qData) :
               (qData.starts[i] = qData.starts[j] /\ qData.depths[i] = qData.depths[j])
                   => i = j
        /\ Len(qData.starts) =
               Cardinality(QueryGroups(QueryFilter(qTable, qReq.start, qReq.end, qMaxDurNs),
                                       qReq.resolution))
        /\ \A i \in Rows(qData) :
               \E s \in RowGroup(i) :
                   /\ s.id = qData.sliceIds[i]
                   /\ DurOrToEnd(s, qTraceEnd) = RowGroupMaxDur(i)
                   /\ qData.ends[i] =
                          Max2(BIMathQuant(s.ts + RowGroupMaxDur(i), qReq.resolution),
                               qData.starts[i] + qReq.resolution)

\* A response with a row whose bucket and depth hold two queried slices of
\* different durations.
C19_Witness ==
    /\ qData # NoData
    /\ \E i \in Rows(qData) :
           \E s, t \in RowGroup(i) :
               /\ s.id # t.id
               /\ DurOrToEnd(s, qTraceEnd) < DurOrToEnd(t, qTraceEnd)
               /\ qData.sliceIds[i] = t.id

\* strings has no duplicate and strings[titles[i]] is the name of row i
TitlesIndexStrings(strings, titles, names) ==
    /\ Cardinality({strings[k] : k \in 1..Len(strings)}) = Len(strings)
    /\ \A i \in 1..Len(titles) :
           /\ titles[i] < Len(strings)
           /\ strings[titles[i] + 1] = names[i]

\* C20: in every response strings contains no duplicate and strings[titles[i]]
\* equals the name of row i for every row i, for any number of distinct names
\* in the response (titles is a 16-bit unsigned array).
C20_TitlesIndexStrings == TitlesIndexStrings(Strings, Titles, Names)

\* C21: the maxDurNs cache is scoped to one controller instance: under any
\* interleaving of probe and main-query completions across the controllers of
\* different tracks, the maxDurNs in the lower bound start - maxDurNs of a
\* track's main query is the probe result of that track's own table.
C21_CachePerController ==
    \A k \in CtlTrackIds :
        \A r \in 1..Len(mReqs[k]) :
            mReqs[k][r].pc \in {"main", "done"} =>
                mReqs[k][r].maxDurNs = MaxDurQuery(mTable[k], CtlTraceEnd)

\* Track t1 has a slice of duration 5 and its probe has resolved; track t2
\* has an instant only, and its call made afterwards has got its rows with
\* the lower bound of its own probe.
C21_Witness ==
    /\ MaxDurQuery(mTable["t1"], CtlTraceEnd) > 0
    /\ MaxDurQuery(mTable["t2"], CtlTraceEnd) = 0
    /\ mTable["t2"] # {}
    /\ Len(mReqs["t1"]) >= 1 /\ mReqs["t1"][1].pc = "done"
    /\ mMaxDurNs["t1"] > 0
    /\ Len(mReqs["t2"]) >= 1 /\ mReqs["t2"][1].pc = "done"
    /\ mMaxDurNs["t2"] = 0

\* Whether the point of the last call lies in a rectangle of getSliceRect
PointInRect(rect) ==
    /\ rect.left <= HitTime /\ HitTime < rect.left + rect.width
    /\ rect.top <= hPoint.y /\ hPoint.y < rect.top + rect.height

\* C22: render and hit-test agree: for every non-instant row that renderCanvas
\* draws, every point (x, y) inside the rectangle getSliceRect returns for it
\* makes getSliceIndex return a row, rows whose width was forced up to the
\* 1 px minimum and rows clamped to the window included.
C22_RenderHitAgree ==
    HitTested =>
        \A i \in Rows(hData) :
            (/\ hData.isInstant[i] = 0
             /\ RenderRect(hData, hView, i).visible
             /\ PointInRect(RenderRect(hData, hView, i)))
                => hResult # NoHit

\* C23: for an instant row, getSliceIndex returns that row (at its depth)
\* exactly when the pointer's x is closer to the row's start position than half
\* the width of the glyph drawn for it, the 10 px chevron or the 16 px diamond.
C23_InstantHitWithinGlyph ==
    HitTested =>
        \A i \in Rows(hData) :
            (/\ hData.isInstant[i] = 1
             /\ hPoint.y >= TRACK_PADDING
             /\ hData.depths[i] = HitDepthAtY
             /\ \A j \in 1..(i - 1) : ~RowHit(hData, hView, j, HitTime, HitDepthAtY))
                => (hResult = i - 1
                      <=> Abs(hData.starts[i] - HitTime) < GlyphHalfWidthPx(hView) * hView.nsPerPx)

OutlineOps == {"strokeRect", "outerChevron", "innerChevron"}

\* The rows renderCanvas draws for the current selection
SelectedDrawn ==
    IF hData = NoData THEN {}
    ELSE {i \in Rows(hData) : IsSelected(hData, dSel, i) /\ RenderRect(hData, hView, i).visible}

\* C24: in one renderCanvas pass the outline of the selected row (stroke
\* rectangle, or outlined chevron for a selected instant) is drawn after the
\* fill and the text of every row of the data, whatever the position of the
\* selected row in the row order; when no row is selected nothing is drawn
\* after the loop.
C24_OutlineDrawnLast ==
    /\ \A p, q \in 1..Len(dOps) :
           (dOps[p].op \in OutlineOps /\ dOps[q].op \notin OutlineOps) => q < p
    /\ \A p \in 1..Len(dOps) : dOps[p].op \in OutlineOps => dOps[p].row \in SelectedDrawn
    /\ SelectedDrawn = {} => \A p \in 1..Len(dOps) : dOps[p].op \notin OutlineOps
    /\ (SelectedDrawn # {} /\ dOps # <<>>) => dOps[Len(dOps)].op \in OutlineOps

\* The first of two drawn rows is selected: its stroke rectangle is the fifth
\* and last call, after the fill and the text of the second row.
C24_Witness ==
    /\ dSel = 11
    /\ Len(dOps) = 5
    /\ dOps[3] = DrawOp("fill", 2)
    /\ dOps[4] = DrawOp("text", 2)
    /\ dOps[5] = DrawOp("strokeRect", 1)

\* The position (1-based) of the first x in seq, 0 when there is none
PosOf(seq, x) == IndexOf(seq, x) + 1

\* moveTrack with srcId # dstId, both in the list `list` of the previous state
\* and neither of them in the list `other`
MoveWithin(list, other) ==
    /\ Dispatched("moveTrack")
    /\ last.args.srcId # last.args.dstId
    /\ SeqIncludes(prev[list], last.args.srcId)
    /\ SeqIncludes(prev[list], last.args.dstId)
    /\ ~SeqIncludes(prev[other], last.args.srcId)
    /\ ~SeqIncludes(prev[other], last.args.dstId)

MovedNextTo(before, after) ==
    /\ Len(after) = Len(before)
    /\ PosOf(after, last.args.srcId) =
           IF last.args.op = "before" THEN PosOf(after, last.args.dstId) - 1
           ELSE PosOf(after, last.args.dstId) + 1
    /\ SeqWithout(after, last.args.srcId) = SeqWithout(before, last.args.srcId)

ListedIds(s) ==
    [id \in {s.pinnedTracks[i] : i \in 1..Len(s.pinnedTracks)}
            \cup {s.scrollingTracks[i] : i \in 1..Len(s.scrollingTracks)} |->
        Cardinality({i \in 1..Len(s.pinnedTracks) : s.pinnedTracks[i] = id})
        + Cardinality({i \in 1..Len(s.scrollingTracks) : s.scrollingTracks[i] = id})]

\* C29: moveTrack never loses or duplicates a track: for any srcId and dstId
\* the multiset of IDs in pinnedTracks together with scrollingTracks is the
\* same before and after the action.
C29_MoveTrackKeepsIds == Dispatched("moveTrack") => ListedIds(state) = ListedIds(prev)

\* C30: after any sequence of addTrack, removeTrack, toggleTrackPinned,
\* moveTrack and clearAllPinnedTracks, every track whose trackGroup is the
\* scrolling group appears exactly once in exactly one of scrollingTracks and
\* pinnedTracks, and every ID in those two lists names an existing track.
C30_ListsMatchTracks ==
    /\ \A id \in DOMAIN state.tracks :
           state.tracks[id].trackGroup = SCROLLING_TRACK_GROUP =>
               (id \in DOMAIN ListedIds(state) /\ ListedIds(state)[id] = 1)
    /\ \A id \in DOMAIN ListedIds(state) : Has(state.tracks, id)

ExistingTrackRemoval == Dispatched("removeTrack") /\ Has(prev.tracks, last.args.trackId)

\* C26: after removeTrack({trackId}) of an existing track, trackId is absent
\* from state.tracks, scrollingTracks, pinnedTracks and the tracks list of its
\* group, and uiTrackIdByTraceTrackId maps no trace track ID to it; exactly one
\* descriptor of the track has been appended to filteredTracks.
C26_RemoveTrackCleansUp ==
    ExistingTrackRemoval =>
        LET trackId == last.args.trackId
            track == prev.tracks[trackId]
        IN /\ ~raised
           /\ ~Has(state.tracks, trackId)
           /\ ~SeqIncludes(state.scrollingTracks, trackId)
           /\ ~SeqIncludes(state.pinnedTracks, trackId)
           /\ Has(state.trackGroups, track.trackGroup) =>
                  ~SeqIncludes(state.trackGroups[track.trackGroup].tracks, trackId)
           /\ \A t \in DOMAIN state.uiTrackIdByTraceTrackId :
                  state.uiTrackIdByTraceTrackId[t] # trackId
           /\ Len(state.filteredTracks) = Len(prev.filteredTracks) + 1
           /\ SubSeq(state.filteredTracks, 1, Len(prev.filteredTracks)) = prev.filteredTracks
           /\ state.filteredTracks[Len(state.filteredTracks)].name = track.name
           /\ state.filteredTracks[Len(state.filteredTracks)].config = track.config

\* C27: a plugin can be toggled off and on: an activatePlugin call that
\* finds the plugin inactive makes it active and runs its activate function
\* once more, and a repeated activation ends without a duplicate-registration
\* error; activatePlugin on an active plugin does not call activate again.
Reactivated ==
    /\ gLast.op = "activatePlugin"
    /\ ~gLast.wasActive
    /\ gLast.callsBefore >= 1
C27_ToggleOffOn ==
    /\ Reactivated =>
           /\ isActive(gContexts, gLast.pluginId)
           /\ gCalls[gLast.pluginId] = gLast.callsBefore + 1
           /\ ~gLast.threw
    /\ (gLast.op = "activatePlugin" /\ gLast.wasActive) =>
           gCalls[gLast.pluginId] = gLast.callsBefore

\* C28: permalink requests are last-request-wins: a setPermalink whose
\* requestId differs from state.permalink.requestId changes nothing, and a
\* setPermalink for the current request stores its hash; so after two
\* createPermalink calls only the answer to the second one sets a hash.
C28_PermalinkLastRequestWins ==
    Dispatched("setPermalink") =>
        /\ ~raised
        /\ IF last.args.requestId # prev.permalink.requestId
              THEN state = prev
              ELSE state = [prev EXCEPT !.permalink = last.args]
C28_Witness ==
    /\ Dispatched("setPermalink")
    /\ steps = 3
    /\ prev.permalink.requestId = "1"
    /\ last.args.requestId = "0"
    /\ state.permalink.requestId = "1"
    /\ state.permalink.hash = Undefined

\* C31: toggleTrackPinned({trackId}) changes the membership of no ID other
\* than trackId in pinnedTracks and scrollingTracks, in every state reachable
\* by addTrack, removeTrack, moveTrack and toggleTrackPinned.
C31_ToggleTouchesOnlyItsTrack ==
    Dispatched("toggleTrackPinned") =>
        \A id \in (DOMAIN ListedIds(prev) \cup DOMAIN ListedIds(state)) \ {last.args.trackId} :
            /\ SeqIncludes(state.pinnedTracks, id) = SeqIncludes(prev.pinnedTracks, id)
            /\ SeqIncludes(state.scrollingTracks, id) = SeqIncludes(prev.scrollingTracks, id)

\* C32: after any sequence of addTrackGroup, addTrack, removeTrack and
\* removeTrackGroup, every track whose trackGroup is neither undefined nor the
\* scrolling group has an existing entry state.trackGroups[trackGroup], every
\* group's parentGroup and subgroups name existing groups, and removeTrack
\* on an existing track completes without error.
C32_GroupsOfTracksExist ==
    /\ \A id \in DOMAIN state.tracks :
           state.tracks[id].trackGroup \notin {Undefined, SCROLLING_TRACK_GROUP} =>
               Has(state.trackGroups, state.tracks[id].trackGroup)
    /\ \A g \in DOMAIN state.trackGroups :
           /\ state.trackGroups[g].parentGroup # Undefined =>
                  Has(state.trackGroups, state.trackGroups[g].parentGroup)
           /\ \A i \in 1..Len(state.trackGroups[g].subgroups) :
                  Has(state.trackGroups, state.trackGroups[g].subgroups[i])
    /\ ExistingTrackRemoval => ~raised

\* C33: after any sequence of selectArea, markArea, markCurrentArea,
\* toggleMarkCurrentArea, editArea, removeNote, selectNote and deselect,
\* whenever currentSelection is an AREA selection with a defined noteId n,
\* state.notes[n] exists, is an AREA note, and its areaId equals
\* currentSelection.areaId.
C33_SelectionNoteMatchesArea ==
    (state.currentSelection.kind = "AREA" /\ state.currentSelection.noteId # Undefined) =>
        LET n == state.currentSelection.noteId
        IN /\ Has(state.notes, n)
           /\ state.notes[n].noteType = "AREA"
           /\ state.notes[n].areaId = state.currentSelection.areaId

\* C34: after any sequence of selectArea, reSelectArea (with any areaId and
\* noteId), markArea, markCurrentArea, toggleMarkCurrentArea, editArea and
\* removeNote, every note of noteType AREA has an areaId for which
\* state.areas[areaId] exists.
C34_AreaNotesHaveAreas ==
    \A n \in DOMAIN state.notes :
        state.notes[n].noteType = "AREA" => Has(state.areas, state.notes[n].areaId)

OpenedTrace ==
    /\ last.via = "dispatch"
    /\ last.type \in {"openTraceFromFile", "openTraceFromBuffer", "openTraceFromUrl",
                      "openTraceFromStream", "openTraceFromHttpRpc"}

\* C35: setEngineReady whose engineId differs from state.engine.id, or that
\* arrives when there is no engine, changes nothing; an openTraceFrom* action
\* installs an engine with a new id and ready = false, and the engine becomes
\* ready only by a setEngineReady that carries its own id.
C35_EngineReadyLastEngineWins ==
    /\ Dispatched("setEngineReady") =>
           /\ ~raised
           /\ IF prev.engine.id = Undefined \/ prev.engine.id # last.args.engineId
                 THEN state = prev
                 ELSE /\ state.engine.id = prev.engine.id
                      /\ state.engine.ready = last.args.ready
    /\ OpenedTrace =>
           /\ state.engine.id # prev.engine.id
           /\ ~state.engine.ready
    /\ (state.engine.ready /\ ~(prev.engine.ready /\ prev.engine.id = state.engine.id)) =>
           /\ Dispatched("setEngineReady")
           /\ last.args.engineId = state.engine.id
C35_Witness ==
    /\ Dispatched("setEngineReady")
    /\ steps = 3
    /\ last.args.engineId = "0"
    /\ last.args.ready
    /\ prev.engine.id = "1"
    /\ state.engine.id = "1"
    /\ ~state.engine.ready

\* C36: the running flag of runControllers is true exactly while the root
\* controller's invoke() is executing: a runControllers call made from inside
\* invoke() is rejected as re-entrant without invoking the controller, and a
\* call made before any run or after a run returned or threw (livelock error
\* or an exception from invoke) is never rejected.
C36_RunningFlagTracksInvoke ==
    /\ rRunning <=> (rPc = "invoking")
    /\ rCallLog.at # "none" => (rCallLog.rejected <=> (rCallLog.at = "invoking"))
    /\ (rCallLog.rejected /\ rPc = "invoking" /\ rIter = rCallLog.iter) =>
           rCalls = rCallLog.calls
C36_Witness ==
    /\ rCallLog.rejected
    /\ rCallLog.at = "invoking"
    /\ rPc = "threw"
    /\ ~rRunning

\* The last entry of a patch that names a given name, 0 when there is none
LastEntryFor(diffs, name) ==
    LET at == {i \in 1..Len(diffs) : diffs[i][2] = name}
    IN IF at = {} THEN 0 ELSE CHOOSE i \in at : \A j \in at : j <= i

\* C37: after updateFtraceFilter with any patch list, excludedNames has no
\* duplicates, contains every name whose last entry in the patch is 'add',
\* contains no name whose last entry is 'remove', and keeps the membership
\* of every name the patch does not mention.
C37_FtraceFilterFollowsPatch ==
    /\ NoDuplicates(fNames)
    /\ \A name \in FtraceNames :
           LET k == LastEntryFor(fPatch, name)
           IN SeqIncludes(fNames, name) <=>
                  (IF k = 0 THEN SeqIncludes(fPrev, name) ELSE fPatch[k][1] = "add")

\* C38: after any sequence of setAvailableMetrics, setMetricSelectedIndex and
\* requestSelectedMetric, metrics.selectedIndex - whenever defined - satisfies
\* 0 <= selectedIndex < availableMetrics.length; a requestSelectedMetric that
\* did not raise sets requestedMetric to a metric name, and a non-empty
\* availableMetrics always comes with a selection.
C38_SelectedIndexInRange ==
    /\ kMetrics.hasIndex =>
           /\ 0 <= kMetrics.selectedIndex
           /\ kMetrics.selectedIndex < Len(kMetrics.availableMetrics)
    /\ (kLast.type = "requestSelectedMetric" /\ ~kRaised) =>
           SeqIncludes(kMetrics.availableMetrics, kMetrics.requestedMetric)
    /\ Len(kMetrics.availableMetrics) > 0 => kMetrics.hasIndex

\* The last details published were those of an earlier selection, the
\* selection current at that time being of another slice
StaleDetails ==
    /\ wLast.n # 0
    /\ wLast.n # wLast.selection.n
    /\ <<wLast.kind, wLast.id>> # <<wLast.selection.kind, wLast.selection.id>>

\* C39: pendingScrollId set by a selection with scroll = true is cleared by
\* publishSliceDetails only when the published details' id equals the pending
\* id; the details of a selection that a selection of another slice has
\* followed neither clear pendingScrollId nor trigger the scroll, and the
\* details of the current selection, made with scroll = true, do both.
C39_StaleDetailsDoNotScroll ==
    /\ wLast.n # 0 => (wLast.scrolled <=> (wLast.id = wLast.pendingBefore))
    /\ StaleDetails => (~wLast.scrolled /\ wLast.pendingAfter = wLast.pendingBefore)
    /\ (wLast.n # 0 /\ wLast.n = wLast.selection.n /\ wLast.selection.scroll) =>
           (wLast.scrolled /\ wLast.pendingAfter = NoPendingScroll)
====
